---- MODULE Spec2Model ----
(***************************************************************************)
(* Model of the character-driven conversation orchestrator                 *)
(* (examples/intermediate/two_agent_natural_ending.py) and of the agent    *)
(* calls it makes (agents/base_agent.py, agents/character_agent.py).       *)
(*                                                                         *)
(* A text (a Python str) is a sequence of lexemes: every marker the        *)
(* parser's regular expressions look for ("RESPONSE:", "Want to end:",     *)
(* "Confidence:", ...) is one lexeme, and so is every word or number       *)
(* between markers.  The \s* of the regular expressions and str.strip()    *)
(* act on the white space between lexemes, which the sequence does not     *)
(* hold.  The value None is the text NoneText.                             *)
(***************************************************************************)
EXTENDS Integers, Sequences, FiniteSets, TLC

VARIABLES pc, turn_count, conversation_history, current_speaker,
          current_listener, current_message, ending_reason, response_data,
          in_flight, returned, calls, marked, parser_input, parser_output,
          memory, remembered, state_blob, fresh_memory, clock,
          conversations, relationships, varied,
          emotional_state, emotional_states,
          enhanced_relationships, relationship_log, processing,
          recall_query, recalled, agent_memory,
          file_system, construct_call, constructed, raised, opened,
          identity, chat_history

vars == <<pc, turn_count, conversation_history, current_speaker,
          current_listener, current_message, ending_reason, response_data,
          in_flight, returned, calls, marked, parser_input, parser_output,
          memory, remembered, state_blob, fresh_memory, clock,
          conversations, relationships, varied,
          emotional_state, emotional_states,
          enhanced_relationships, relationship_log, processing,
          recall_query, recalled, agent_memory,
          file_system, construct_call, constructed, raised, opened,
          identity, chat_history>>

\* The variables of the parsers taken alone.
parser_vars == <<parser_input, parser_output>>

\* The variables of one agent's memory (BaseAgent.memory), of the state
\* exported from it and of the agent the state is loaded into.
agent_vars == <<memory, remembered, state_blob, fresh_memory>>

\* The variables of one CharacterMemory.
character_memory_vars == <<conversations, relationships, varied>>

\* The variables of the construction of agents: the character files that
\* exist, the arguments of the last call of the constructor, the agents
\* constructed, the exception that left a constructor and the number of
\* files opened.
construct_vars == <<file_system, construct_call, constructed, raised, opened>>

\* The variables of one agent beyond its memory that get_state exports:
\* agent_id, name and personality, and the dialogue transcript.
base_vars == <<identity, chat_history>>

\* The variables of one CharacterAgent or EnhancedCharacterAgent beyond its
\* memory, of the call it is handling and of the last call of recall, and
\* those of the construction of agents.
enhanced_vars == <<emotional_state, emotional_states,
                   enhanced_relationships, relationship_log, processing,
                   recall_query, recalled, construct_vars, base_vars>>

\* The variables the orchestrator and the parsers leave alone.
store_vars == <<memory, remembered, state_blob, fresh_memory, clock,
                conversations, relationships, varied,
                emotional_state, emotional_states,
                enhanced_relationships, relationship_log, processing,
                recall_query, recalled, agent_memory, construct_vars,
                base_vars>>

\* The variables of one conversation run.
run_vars == <<pc, turn_count, conversation_history, current_speaker,
              current_listener, current_message, ending_reason,
              response_data, in_flight, returned, calls, marked>>

(***************************************************************************)
(* Bounds of the model and constants of the program.                       *)
(***************************************************************************)
\* Generation calls of one run whose outcome is not the plain reply.
MaxMarked == 1

\* Lexemes of a text handed to a parser taken alone.
MaxTextLen == 3

\* self.max_turns = 20
MaxTurns == 20

\* if confidence >= 7 / elif confidence >= 4
HighConfidence == 7
MediumConfidence == 4

\* confidence = 5 (the parser's default), max(1, min(10, confidence))
DefaultConfidence == 5
MinConfidence == 1
MaxConfidence == 10

\* self.conversation_history[-3:]
RecentTurns == 3

(***************************************************************************)
(* Agents.                                                                 *)
(***************************************************************************)
Agents == {"agent1", "agent2"}
NoAgent == "nobody"

Name(a) == CASE a = "agent1" -> "Holmes"
             [] a = "agent2" -> "Watson"
             [] OTHER -> "Unknown"

(***************************************************************************)
(* Texts.                                                                  *)
(***************************************************************************)
NoneText == <<"<None>">>
NoInt == -1
NoIndex == 0

Min(a, b) == IF a < b THEN a ELSE b
Max(a, b) == IF a > b THEN a ELSE b

\* seq[-n:]
LastN(seq, n) == SubSeq(seq, Max(1, Len(seq) - n + 1), Len(seq))

\* str.upper() of a lexeme (what re.IGNORECASE compares).
Upper(tok) == CASE tok = "yes" -> "YES"
                [] tok = "no" -> "NO"
                [] tok = "want to end:" -> "WANT TO END:"
                [] tok = "Want to end:" -> "WANT TO END:"
                [] tok = "agree to end:" -> "AGREE TO END:"
                [] tok = "Agree to end:" -> "AGREE TO END:"
                [] OTHER -> tok

\* The alternative of (YES|NO) a lexeme starts with, "" when it starts with
\* neither.
YesNo(tok) == CASE Upper(tok) \in {"YES", "YES.", "YESTERDAY"} -> "YES"
                [] Upper(tok) \in {"NO", "NO.", "NOT"} -> "NO"
                [] OTHER -> ""

\* int() of the digits (\d+) a lexeme starts with, NoInt when it starts with
\* no digit.
LeadingDigits(tok) == CASE tok = "0" -> 0
                        [] tok = "1" -> 1
                        [] tok = "3" -> 3
                        [] tok = "4" -> 4
                        [] tok = "5" -> 5
                        [] tok = "6" -> 6
                        [] tok = "7" -> 7
                        [] tok = "8" -> 8
                        [] tok = "8/10" -> 8
                        [] tok = "9" -> 9
                        [] tok = "10" -> 10
                        [] tok = "12" -> 12
                        [] tok = "429" -> 429
                        [] OTHER -> NoInt

\* The least of the indices at which a pattern matches, NoIndex when it
\* matches nowhere: re.search returns the leftmost match.
FirstIndex(hits) ==
  IF hits = {} THEN NoIndex
  ELSE CHOOSE i \in hits : \A j \in hits : i <= j

\* The lexemes after index i up to the first lexeme stop after i, or up to
\* the end of the text: the group of  marker\s*(.*?)(?=stop|$)  with DOTALL,
\* stripped.
GroupUntil(text, i, stop) ==
  LET j == FirstIndex({k \in (i + 1)..Len(text) : text[k] = stop})
  IN SubSeq(text, i + 1, IF j = NoIndex THEN Len(text) ELSE j - 1)

(***************************************************************************)
(* _parse_intelligent_response                                             *)
(***************************************************************************)
DefaultReasoning == <<"No clear reasoning provided">>
FailedReasoning == <<"Failed to parse ending assessment">>

\* Mutant of Clamp: the lower bound is forgotten.
ClampUpperOnly(n) == Min(MaxConfidence, n)

\* max(1, min(10, confidence))
Clamp(n) == Max(MinConfidence, Min(MaxConfidence, n))

\* re.search(r'RESPONSE:\s*(.*?)(?=ENDING_ASSESSMENT:|$)', ..., re.DOTALL);
\* the whole text when there is no match.
ParseResponse(text) ==
  LET i == FirstIndex({k \in 1..Len(text) : text[k] = "RESPONSE:"})
  IN IF i = NoIndex THEN text ELSE GroupUntil(text, i, "ENDING_ASSESSMENT:")

\* Mutant of ParseWantsToEnd: a reply without the marker wants to end.
ParseWantsToEndDefaultYes(text) ==
  LET i == FirstIndex({k \in 1..(Len(text) - 1) :
                         /\ Upper(text[k]) = "WANT TO END:"
                         /\ YesNo(text[k + 1]) # ""})
  IN IF i = NoIndex THEN TRUE ELSE YesNo(text[i + 1]) = "YES"

\* re.search(r'Want to end:\s*(YES|NO)', ..., re.IGNORECASE);
\* wants_to_end = group(1).upper() == "YES", False when there is no match.
ParseWantsToEnd(text) ==
  LET i == FirstIndex({k \in 1..(Len(text) - 1) :
                         /\ Upper(text[k]) = "WANT TO END:"
                         /\ YesNo(text[k + 1]) # ""})
  IN IF i = NoIndex THEN FALSE ELSE YesNo(text[i + 1]) = "YES"

\* re.search(r'Reasoning:\s*(.*?)(?=Confidence:|$)', ..., re.DOTALL)
ParseReasoning(text) ==
  LET i == FirstIndex({k \in 1..Len(text) : text[k] = "Reasoning:"})
  IN IF i = NoIndex THEN DefaultReasoning
     ELSE GroupUntil(text, i, "Confidence:")

\* re.search(r'Confidence:\s*(\d+)', ...); int() of the group, clamped;
\* 5 when there is no match.
ParseConfidence(text) ==
  LET i == FirstIndex({k \in 1..(Len(text) - 1) :
                         /\ text[k] = "Confidence:"
                         /\ LeadingDigits(text[k + 1]) # NoInt})
  IN IF i = NoIndex THEN DefaultConfidence
     ELSE Clamp(LeadingDigits(text[i + 1]))

\* re.search on None raises TypeError; the except branch returns the
\* fallback decision.
ParseIntelligentResponse(full_response) ==
  IF full_response = NoneText
  THEN [response |-> full_response, wants_to_end |-> FALSE,
        reasoning |-> FailedReasoning, confidence |-> DefaultConfidence]
  ELSE [response |-> ParseResponse(full_response),
        wants_to_end |-> ParseWantsToEnd(full_response),
        reasoning |-> ParseReasoning(full_response),
        confidence |-> ParseConfidence(full_response)]

(***************************************************************************)
(* The parse of the consensus reply in _get_ending_consensus               *)
(***************************************************************************)
NoConsensusReasoning == <<"No reasoning provided">>
UndeterminedConsensus == <<"Could not determine consensus">>

\* Mutant of ParseAgrees: a reply without the marker agrees.
ParseAgreesDefaultYes(text) ==
  LET i == FirstIndex({k \in 1..(Len(text) - 1) :
                         /\ Upper(text[k]) = "AGREE TO END:"
                         /\ YesNo(text[k + 1]) # ""})
  IN IF i = NoIndex THEN TRUE ELSE YesNo(text[i + 1]) = "YES"

\* re.search(r'Agree to end:\s*(YES|NO)', ..., re.IGNORECASE)
ParseAgrees(text) ==
  LET i == FirstIndex({k \in 1..(Len(text) - 1) :
                         /\ Upper(text[k]) = "AGREE TO END:"
                         /\ YesNo(text[k + 1]) # ""})
  IN IF i = NoIndex THEN FALSE ELSE YesNo(text[i + 1]) = "YES"

\* re.search(r'Reasoning:\s*(.*?)$', ..., re.DOTALL): everything after the
\* first Reasoning: marker.
ParseConsensusReasoning(text) ==
  LET i == FirstIndex({k \in 1..Len(text) : text[k] = "Reasoning:"})
  IN IF i = NoIndex THEN NoConsensusReasoning
     ELSE SubSeq(text, i + 1, Len(text))

ParseConsensus(response) ==
  IF response = NoneText
  THEN [agrees_to_end |-> FALSE, reasoning |-> UndeterminedConsensus]
  ELSE [agrees_to_end |-> ParseAgrees(response),
        reasoning |-> ParseConsensusReasoning(response)]

(***************************************************************************)
(* BaseAgent.think: the outcomes of one generation call.                   *)
(***************************************************************************)
Apology == "I apologize, but I'm having difficulty processing that request:"

\* An outcome is a reply text, a failure with the text of its exception, or
\* a completion whose message content is None (line 112), which think
\* returns as it is.
Replied(text) == [kind |-> "reply", text |-> text]
Failed(err) == [kind |-> "failure", text |-> err]
NoContent == [kind |-> "none", text |-> NoneText]

\* Mutant of Think: the failure text is returned without the apology.
ThinkBareError(outcome) == outcome.text

Think(outcome) ==
  IF outcome.kind = "failure" THEN <<Apology>> \o outcome.text
  ELSE outcome.text

\* CharacterAgent.process_message returns what think returned.
ProcessMessage(outcome) == Think(outcome)

(***************************************************************************)
(* What the generation collaborator may return.                            *)
(***************************************************************************)
Utterance == <<"Quite", "so.">>
EndReasoning == <<"the", "matter", "is", "settled">>
StayReasoning == <<"more", "to", "discuss">>

\* A reply in the format the prompt of _get_intelligent_response asks for.
AssessedReply(yn, reasoning, conf) ==
  <<"RESPONSE:">> \o Utterance \o
  <<"ENDING_ASSESSMENT:", "Want to end:", yn, "Reasoning:">> \o reasoning \o
  <<"Confidence:", conf>>

\* A reply without any marker.
PlainReply == <<"Pray", "continue.">>

\* Replies of the listener: without markers, declining to end, and willing
\* to end at confidences on both sides of each threshold of the policy.
TurnReplies ==
  { PlainReply,
    AssessedReply("NO", StayReasoning, "9"),
    AssessedReply("YES", EndReasoning, "12"),
    AssessedReply("yes", EndReasoning, "7"),
    AssessedReply("YES", EndReasoning, "6"),
    AssessedReply("YES", EndReasoning, "4"),
    AssessedReply("YES", EndReasoning, "3"),
    <<"RESPONSE:", "My", "Confidence:", "9", "ENDING_ASSESSMENT:",
      "Want to end:", "YES", "Reasoning:", "tired", "Confidence:", "2">> }

ConsensusReplies ==
  { PlainReply,
    <<"Agreed.", "CONSENSUS:", "Agree to end:", "YES", "Reasoning:",
      "nothing", "to", "add">>,
    <<"CONSENSUS:", "Agree to end:", "yes">>,
    <<"Wait.", "CONSENSUS:", "Agree to end:", "NO", "Reasoning:",
      "one", "more", "question">> }

\* str(e) of the exceptions think catches.
ErrorTexts == { <<"Error", "code:", "429">> }

Topics == { <<"What", "of", "the", "case?">> }

Outcomes(replies) ==
  {Replied(r) : r \in replies} \cup {Failed(e) : e \in ErrorTexts}
    \cup {NoContent}

(***************************************************************************)
(* AgentMemory and BaseAgent: remember, update_relationship, get_state,    *)
(* load_state.  The agent is agent2; the agents it deals with are          *)
(* OtherAgentIds.  A timestamp is the reading of clock when it is taken,   *)
(* and time passes between two calls.                                      *)
(***************************************************************************)
\* if len(self.short_term) > 20: self.short_term = self.short_term[-20:]
ShortTermCap == 20

\* Calls of remember in one run.
MaxRemembered == 22

OtherAgentIds == {"agent1", "agent3"}

Sentiments == {"positive", "concerned"}

\* AgentMemory(): the memory of an agent just constructed.  A dict is the
\* sequence of its entries in insertion order.
EmptyMemory == [short_term |-> <<>>, long_term |-> <<>>,
                relationships |-> <<>>]

\* The event process_message remembers: {"type", "message", "context"}.
ConversationEvent == [type |-> "conversation",
                      message |-> <<"What", "of", "the", "case?">>,
                      context |-> "from_agent"]

Events == {ConversationEvent}

\* {**memory, "timestamp": datetime.utcnow().isoformat()}
StoredEvent(event, now) ==
  [key \in DOMAIN event \cup {"timestamp"} |->
     IF key = "timestamp" THEN now ELSE event[key]]

\* Mutant of AddShortTermMemory: the oldest events are kept.
AddShortTermMemoryKeepsOldest(mem, event, now) ==
  LET appended == Append(mem.short_term, StoredEvent(event, now))
  IN [mem EXCEPT !.short_term =
        IF Len(appended) > ShortTermCap
        THEN SubSeq(appended, 1, ShortTermCap) ELSE appended]

\* AgentMemory.add_short_term_memory
AddShortTermMemory(mem, event, now) ==
  LET appended == Append(mem.short_term, StoredEvent(event, now))
  IN [mem EXCEPT !.short_term =
        IF Len(appended) > ShortTermCap
        THEN LastN(appended, ShortTermCap) ELSE appended]

\* The data update_relationship is called with: both callers pass
\* {"last_interaction": message, "sentiment": ...}.
RelationshipData(sentiment) ==
  [last_interaction |-> ConversationEvent.message, sentiment |-> sentiment]

\* AgentMemory.add_relationship: a new id gets an entry at the end of the
\* dict, a known one has its entry updated in place (dict.update with the
\* same keys replaces every value).
AddRelationship(mem, agent_id, relationship_data) ==
  LET rels == mem.relationships
      i == FirstIndex({k \in 1..Len(rels) : rels[k].agent_id = agent_id})
  IN [mem EXCEPT !.relationships =
        IF i = NoIndex
        THEN Append(rels, [agent_id |-> agent_id, data |-> relationship_data])
        ELSE [rels EXCEPT ![i].data = relationship_data]]

NoBlob == [agent_id |-> NoAgent]

Personality == [temperament |-> "loyal"]

\* Mutant of GetStateBlob: the relationships are left out of the blob.
GetStateBlobWithoutRelationships(mem) ==
  [agent_id |-> "agent2", name |-> Name("agent2"),
   personality |-> Personality,
   memory |-> [mem EXCEPT !.relationships = <<>>],
   chat_history |-> <<>>]

\* BaseAgent.get_state: memory.model_dump() is a copy of the memory; the
\* agent has made no generation call, so its chat history is empty.
GetStateBlob(mem) ==
  [agent_id |-> "agent2", name |-> Name("agent2"),
   personality |-> Personality, memory |-> mem, chat_history |-> <<>>]

\* BaseAgent.__init__, lines 44-46 and 49, of the agent whose memory this
\* is, and the system prompt its transcript starts with.
AgentIdentity == [agent_id |-> "agent2", name |-> Name("agent2"),
                  personality |-> Personality]
SystemPrompt == <<"You", "are", "Watson">>

\* BaseAgent.think, lines 114-118: a call that succeeded is added to the
\* transcript, after the system prompt when the transcript was empty; a
\* call that failed leaves the transcript as it was.
Transcript(history, prompt, outcome) ==
  IF outcome.kind = "failure" THEN history
  ELSE (IF history = <<>>
        THEN <<[role |-> "system", content |-> SystemPrompt]>> ELSE <<>>)
       \o history
       \o <<[role |-> "user", content |-> prompt],
            [role |-> "assistant", content |-> outcome.text]>>

\* Mutant of LoadedMemory: the short-term cap is applied to what is loaded.
LoadedMemoryCapped(state) ==
  LET dict == IF "memory" \in DOMAIN state THEN state.memory ELSE <<>>
      mem == [key \in DOMAIN EmptyMemory |->
                IF key \in DOMAIN dict THEN dict[key] ELSE EmptyMemory[key]]
  IN [mem EXCEPT !.short_term = LastN(mem.short_term, ShortTermCap)]

\* AgentMemory(**state.get("memory", {})): a field the dict does not hold
\* takes its default, and a list is taken as it is.
LoadedMemory(state) ==
  LET dict == IF "memory" \in DOMAIN state THEN state.memory ELSE <<>>
  IN [key \in DOMAIN EmptyMemory |->
        IF key \in DOMAIN dict THEN dict[key] ELSE EmptyMemory[key]]

\* BaseAgent.load_state, lines 163-164: the transcript after the load.
LoadedChatHistory(history, state) ==
  IF "chat_history" \in DOMAIN state THEN <<>> ELSE history

(***************************************************************************)
(* CharacterMemory: remember_interaction and _update_relationship.         *)
(* Scores are in tenths: 5.0 is 50 and 0.5 is 5.  The sums of 0.5 are      *)
(* exact in binary floating point; those of 0.2 differ from the decimal    *)
(* value by less than 1e-14, which changes neither their order nor the     *)
(* comparison with the cap 10.0 except that the cap is met on the 26th     *)
(* long message instead of the 25th.                                       *)
(***************************************************************************)
\* Calls of remember_interaction in one run, and those of them that are not
\* a long message from agent1.
MaxInteractions == 27
MaxVaried == 1

\* "trust_level": 5.0, "familiarity": 0.0, "collaboration_score": 5.0
InitialTrust == 50
InitialFamiliarity == 0
InitialCollaboration == 50

\* min(10.0, rel["familiarity"] + 0.5)
ScoreCap == 100
FamiliarityStep == 5

\* if message_length > 100: min(10.0, rel["collaboration_score"] + 0.2)
LongMessageLength == 100
CollaborationStep == 2

\* len() of a str: the characters of its lexemes and one space between two
\* lexemes.
RECURSIVE CharCount(_)
CharCount(text) ==
  IF text = <<>> THEN 0
  ELSE Len(Head(text)) + (IF Len(text) > 1 THEN 1 ELSE 0)
         + CharCount(Tail(text))

\* Messages of 6, of exactly 100 and of 101 characters.
ShortMessage == <<"Indeed">>
HundredMessage == <<"Notwithstanding", "circumstantial", "appearances,",
                    "Lestrade's", "characteristically", "unimaginative",
                    "theory", "fails">>
LongMessage == <<"Notwithstanding", "circumstantial", "appearances,",
                 "Lestrade's", "characteristically", "unimaginative",
                 "theory", "fails.">>

Messages == {ShortMessage, HundredMessage, LongMessage}

\* Lines 19-25: context or {} is the empty dict when no context is given.
Interaction(message, response, now, turn_number) ==
  [timestamp |-> now, message |-> message, response |-> response,
   context |-> <<>>, turn_number |-> turn_number]

\* Mutant of NewRelationship: the first interaction is counted twice.
NewRelationshipCounted(interaction) ==
  [trust_level |-> InitialTrust, familiarity |-> InitialFamiliarity,
   collaboration_score |-> InitialCollaboration, conversation_count |-> 1,
   first_meeting |-> interaction.timestamp,
   last_interaction |-> interaction.timestamp,
   relationship_notes |-> <<>>]

\* Lines 33-41: the record of an agent met for the first time.
NewRelationship(interaction) ==
  [trust_level |-> InitialTrust, familiarity |-> InitialFamiliarity,
   collaboration_score |-> InitialCollaboration, conversation_count |-> 0,
   first_meeting |-> interaction.timestamp,
   last_interaction |-> interaction.timestamp,
   relationship_notes |-> <<>>]

\* Mutant of Familiarity: the cap is forgotten.
FamiliarityUncapped(familiarity) == familiarity + FamiliarityStep

\* Line 45.
Familiarity(familiarity) == Min(ScoreCap, familiarity + FamiliarityStep)

\* Mutant of Collaboration: a message of exactly 100 characters counts.
CollaborationFromHundred(score, message) ==
  IF CharCount(message) >= LongMessageLength
  THEN Min(ScoreCap, score + CollaborationStep) ELSE score

\* Lines 49-51.
Collaboration(score, message) ==
  IF CharCount(message) > LongMessageLength
  THEN Min(ScoreCap, score + CollaborationStep) ELSE score

\* Mutant of CharacterMemoryUpdateRelationship: a long message earns trust
\* as it earns collaboration.
UpdateRelationshipEarnsTrust(rels, other_agent_id, interaction) ==
  LET known == IF other_agent_id \in DOMAIN rels THEN rels
               ELSE [o \in DOMAIN rels \cup {other_agent_id} |->
                       IF o = other_agent_id THEN NewRelationship(interaction)
                       ELSE rels[o]]
      rel == known[other_agent_id]
  IN [known EXCEPT ![other_agent_id] =
        [rel EXCEPT
           !.conversation_count = rel.conversation_count + 1,
           !.familiarity = Familiarity(rel.familiarity),
           !.last_interaction = interaction.timestamp,
           !.trust_level =
              Collaboration(rel.trust_level, interaction.message),
           !.collaboration_score =
              Collaboration(rel.collaboration_score, interaction.message)]]

\* Mutant of CharacterMemoryUpdateRelationship: the dict is rebuilt with the
\* record of the agent of the interaction alone.
UpdateRelationshipForgetsOthers(rels, other_agent_id, interaction) ==
  LET rel == IF other_agent_id \in DOMAIN rels THEN rels[other_agent_id]
             ELSE NewRelationship(interaction)
  IN [o \in {other_agent_id} |->
        [rel EXCEPT
           !.conversation_count = rel.conversation_count + 1,
           !.familiarity = Familiarity(rel.familiarity),
           !.last_interaction = interaction.timestamp,
           !.collaboration_score =
              Collaboration(rel.collaboration_score, interaction.message)]]

\* CharacterMemory._update_relationship
CharacterMemoryUpdateRelationship(rels, other_agent_id, interaction) ==
  LET known == IF other_agent_id \in DOMAIN rels THEN rels
               ELSE [o \in DOMAIN rels \cup {other_agent_id} |->
                       IF o = other_agent_id THEN NewRelationship(interaction)
                       ELSE rels[o]]
      rel == known[other_agent_id]
  IN [known EXCEPT ![other_agent_id] =
        [rel EXCEPT
           !.conversation_count = rel.conversation_count + 1,
           !.familiarity = Familiarity(rel.familiarity),
           !.last_interaction = interaction.timestamp,
           !.collaboration_score =
              Collaboration(rel.collaboration_score, interaction.message)]]

(***************************************************************************)
(* CharacterAgent and EnhancedCharacterAgent: process_message,             *)
(* reset_emotional_state and recall.  The agent is agent2.  A keyword is   *)
(* looked for as a substring of the lower-cased message (word in           *)
(* message.lower()); no keyword holds white space, so it is a substring of *)
(* the message exactly when it is a substring of one of its lexemes.       *)
(***************************************************************************)
UpperCase == "ABCDEFGHIJKLMNOPQRSTUVWXYZ"
LowerCase == "abcdefghijklmnopqrstuvwxyz"

\* The lower-case letter of each capital.
LowerOf ==
  [c \in {SubSeq(UpperCase, k, k) : k \in 1..Len(UpperCase)} |->
     LET i == FirstIndex({k \in 1..Len(UpperCase) :
                            SubSeq(UpperCase, k, k) = c})
     IN SubSeq(LowerCase, i, i)]

\* str.lower() of one character.
LowerChar(c) == IF c \in DOMAIN LowerOf THEN LowerOf[c] ELSE c

\* str.lower()
RECURSIVE Lower(_)
Lower(s) ==
  IF Len(s) = 0 THEN s
  ELSE LowerChar(SubSeq(s, 1, 1)) \o Lower(SubSeq(s, 2, Len(s)))

\* needle in hay, for two strings.
Contains(hay, needle) ==
  \E i \in 1..(Len(hay) - Len(needle) + 1) :
     SubSeq(hay, i, i + Len(needle) - 1) = needle

\* word in message.lower()
HasWord(message, word) ==
  \E i \in 1..Len(message) : Contains(Lower(message[i]), word)

\* The keyword lists of _update_emotional_state.
ExcitementWords == {"wonderful", "excellent", "brilliant", "fascinating"}
DistressWords == {"difficult", "problem", "concern", "worry"}
GratitudeWords == {"thank", "appreciate", "grateful"}

\* The keyword lists of the sentiment analysis of _update_memory.
PositiveWords == {"thank", "appreciate", "wonderful", "excellent"}
ConcernedWords == {"problem", "issue", "concern", "upset"}

\* The knowledge areas of the character file, lower-cased.
TopicExpertise == {"poison"}

\* The messages the agent is sent: without any keyword, with a keyword of
\* one list, with keywords of two lists, with a keyword inside a longer
\* word, and in capitals.
PlainMessage == <<"What", "of", "the", "case?">>
GratefulMessage == <<"Thank", "you,", "Watson.">>
TroubledMessage == <<"One", "PROBLEM", "remains.">>
ExcitedMessage == <<"Brilliant!">>
ExcitedTroubledMessage == <<"A", "fascinating", "problem.">>
ExcitedGratefulMessage == <<"Excellent,", "thank", "you.">>
TroubledGratefulMessage == <<"I", "appreciate", "the", "difficulty.">>
UnconcernedMessage == <<"He", "seemed", "unconcerned.">>
PoisonMessage == <<"Which", "poison?">>

SpokenMessages ==
  { PlainMessage, GratefulMessage, TroubledMessage, ExcitedMessage,
    ExcitedTroubledMessage, ExcitedGratefulMessage, TroubledGratefulMessage,
    UnconcernedMessage, PoisonMessage }

\* The keywords each message holds, worked out once for the messages of the
\* model.
KeywordsOf ==
  [message \in SpokenMessages |->
     {word \in ExcitementWords \cup DistressWords \cup GratitudeWords
                \cup PositiveWords \cup ConcernedWords \cup TopicExpertise :
        HasWord(message, word)}]

\* any(word in message.lower() for word in words)
HasAny(message, words) ==
  IF message \in SpokenMessages
  THEN KeywordsOf[message] \cap words # {}
  ELSE \E word \in words : HasWord(message, word)

\* self.emotional_state = {"mood": "neutral", "energy": 100}
FullEnergy == 100
InitialEmotionalState == [mood |-> "neutral", energy |-> FullEnergy]

\* min(100, energy + 10), max(0, energy - 5), max(50, 100 - turn * 5)
ExcitementBoost == 10
DistressDrain == 5
NoEnergy == 0
EnergyFloor == 50
DecayPerTurn == 5

\* if len(self.emotional_states) > 20
EmotionalStatesCap == 20

\* The context dict of a call.  None, {} and a dict without the key are
\* alike to every test of the agents (context and "key" in context): a key
\* that is absent holds NoAgent or NoInt.  The history slice of the context
\* is read by no agent.
Context(from_agent, conversation_turn) ==
  [from_agent |-> from_agent, conversation_turn |-> conversation_turn]
NoContext == Context(NoAgent, NoInt)
HasFromAgent(context) == context.from_agent # NoAgent
HasTurn(context) == context.conversation_turn # NoInt

\* Mutant of UpdateEmotionalState: distress is looked for before excitement.
UpdateEmotionalStateDistressFirst(state, message, context) ==
  LET keyed ==
        IF HasAny(message, DistressWords)
        THEN [mood |-> "concerned",
              energy |-> Max(NoEnergy, state.energy - DistressDrain)]
        ELSE IF HasAny(message, ExcitementWords)
        THEN [mood |-> "excited",
              energy |-> Min(FullEnergy, state.energy + ExcitementBoost)]
        ELSE IF HasAny(message, GratitudeWords)
        THEN [state EXCEPT !.mood = "pleased"]
        ELSE state
  IN IF HasTurn(context)
     THEN [keyed EXCEPT !.energy =
             Max(EnergyFloor,
                 FullEnergy - context.conversation_turn * DecayPerTurn)]
     ELSE keyed

\* Mutant of UpdateEmotionalState: the decay is taken from the energy the
\* keywords left instead of from 100.
UpdateEmotionalStateDecaysFromEnergy(state, message, context) ==
  LET keyed ==
        IF HasAny(message, ExcitementWords)
        THEN [mood |-> "excited",
              energy |-> Min(FullEnergy, state.energy + ExcitementBoost)]
        ELSE IF HasAny(message, DistressWords)
        THEN [mood |-> "concerned",
              energy |-> Max(NoEnergy, state.energy - DistressDrain)]
        ELSE IF HasAny(message, GratitudeWords)
        THEN [state EXCEPT !.mood = "pleased"]
        ELSE state
  IN IF HasTurn(context)
     THEN [keyed EXCEPT !.energy =
             Max(EnergyFloor,
                 keyed.energy - context.conversation_turn * DecayPerTurn)]
     ELSE keyed

\* Mutant of UpdateEmotionalState: the boost of excitement is not capped.
UpdateEmotionalStateUncapped(state, message, context) ==
  LET keyed ==
        IF HasAny(message, ExcitementWords)
        THEN [mood |-> "excited",
              energy |-> state.energy + ExcitementBoost]
        ELSE IF HasAny(message, DistressWords)
        THEN [mood |-> "concerned",
              energy |-> Max(NoEnergy, state.energy - DistressDrain)]
        ELSE IF HasAny(message, GratitudeWords)
        THEN [state EXCEPT !.mood = "pleased"]
        ELSE state
  IN IF HasTurn(context)
     THEN [keyed EXCEPT !.energy =
             Max(EnergyFloor,
                 FullEnergy - context.conversation_turn * DecayPerTurn)]
     ELSE keyed

\* EnhancedCharacterAgent._update_emotional_state
UpdateEmotionalState(state, message, context) ==
  LET keyed ==
        IF HasAny(message, ExcitementWords)
        THEN [mood |-> "excited",
              energy |-> Min(FullEnergy, state.energy + ExcitementBoost)]
        ELSE IF HasAny(message, DistressWords)
        THEN [mood |-> "concerned",
              energy |-> Max(NoEnergy, state.energy - DistressDrain)]
        ELSE IF HasAny(message, GratitudeWords)
        THEN [state EXCEPT !.mood = "pleased"]
        ELSE state
  IN IF HasTurn(context)
     THEN [keyed EXCEPT !.energy =
             Max(EnergyFloor,
                 FullEnergy - context.conversation_turn * DecayPerTurn)]
     ELSE keyed

\* The relationships of an AgentMemory: is agent_id a key, and its value.
KnowsAgent(mem, agent_id) ==
  \E k \in 1..Len(mem.relationships) :
     mem.relationships[k].agent_id = agent_id
RelationshipOf(mem, agent_id) ==
  mem.relationships[
    FirstIndex({k \in 1..Len(mem.relationships) :
                  mem.relationships[k].agent_id = agent_id})].data

\* json.dumps of the relationship dict CharacterAgent.process_message reads.
BaseRelationshipJson(mem, agent_id) ==
  <<"last_interaction:">> \o RelationshipOf(mem, agent_id).last_interaction
    \o <<"sentiment:", RelationshipOf(mem, agent_id).sentiment>>

\* json.dumps({**base_rel, **enhanced_rel}): the keys of the base
\* relationship come first, and the enhanced sentiment replaces the base one.
MergedRelationshipJson(mem, enhanced, agent_id) ==
  LET known == agent_id \in DOMAIN enhanced
  IN (IF KnowsAgent(mem, agent_id)
      THEN <<"last_interaction:">>
             \o RelationshipOf(mem, agent_id).last_interaction
             \o <<"sentiment:",
                  IF known THEN enhanced[agent_id].sentiment
                  ELSE RelationshipOf(mem, agent_id).sentiment>>
      ELSE <<>>)
     \o (IF known
         THEN <<"interaction_count:",
                ToString(enhanced[agent_id].interaction_count)>>
                \o (IF KnowsAgent(mem, agent_id) THEN <<>>
                    ELSE <<"sentiment:", enhanced[agent_id].sentiment>>)
                \o <<"emotional_impact:">>
                \o enhanced[agent_id].emotional_impact
         ELSE <<>>)

\* _check_topic_expertise
CheckTopicExpertise(message) == HasAny(message, TopicExpertise)

\* The line _build_enhanced_message adds about the emotional state.
MoodLine(state) ==
  <<"[Your current mood is", state.mood, "with energy level",
    ToString(state.energy), "%]">>

\* EnhancedCharacterAgent._build_enhanced_message
BuildEnhancedMessage(message, context, state, mem, enhanced) ==
  message \o MoodLine(state)
    \o (IF CheckTopicExpertise(message)
        THEN <<"[You are highly knowledgeable about this topic]">>
        ELSE <<>>)
    \o (IF HasFromAgent(context)
           /\ (KnowsAgent(mem, context.from_agent)
               \/ context.from_agent \in DOMAIN enhanced)
        THEN <<"[Your relationship with", context.from_agent, ":">>
               \o MergedRelationshipJson(mem, enhanced, context.from_agent)
               \o <<"]">>
        ELSE <<>>)

\* CharacterAgent.process_message, lines 104-114: the message think is given.
CharacterPrompt(mem, message, context) ==
  IF HasFromAgent(context) /\ KnowsAgent(mem, context.from_agent)
  THEN <<"[Your relationship with", context.from_agent, ":">>
         \o BaseRelationshipJson(mem, context.from_agent)
         \o <<"]">> \o message
  ELSE message

\* CharacterAgent.process_message, lines 117-121: the event remembered.
PromptEvent(prompt, context) ==
  [type |-> "conversation", message |-> prompt, context |-> context]

\* CharacterAgent.process_message, lines 128-131: the relationship data.
PositiveData(mem, prompt, context) ==
  [last_interaction |-> prompt, sentiment |-> "positive"]

\* EnhancedCharacterAgent._update_memory, lines 129-134: the event remembered.
ReplyEvent(message, response, state) ==
  [type |-> "conversation", message |-> message, response |-> response,
   emotional_state |-> state]

\* Mutant of AppendEmotionalState: the log is not trimmed.
AppendEmotionalStateUntrimmed(log, state) == Append(log, state)

\* EnhancedCharacterAgent._update_memory, lines 137-139.
AppendEmotionalState(log, state) ==
  IF Len(Append(log, state)) > EmotionalStatesCap
  THEN LastN(Append(log, state), EmotionalStatesCap)
  ELSE Append(log, state)

\* Mutant of Sentiment: without a keyword the sentiment held is kept.
SentimentKept(message, held) ==
  IF HasAny(message, PositiveWords) THEN "positive"
  ELSE IF HasAny(message, ConcernedWords) THEN "concerned"
  ELSE held

\* EnhancedCharacterAgent._update_memory, lines 155-159; held is the
\* sentiment of the record before the call, which the code does not read.
Sentiment(message, held) ==
  IF HasAny(message, PositiveWords) THEN "positive"
  ELSE IF HasAny(message, ConcernedWords) THEN "concerned"
  ELSE "neutral"

\* EnhancedCharacterAgent._update_memory, lines 144-149.
NewEnhancedRelationship ==
  [interaction_count |-> 0, sentiment |-> "neutral",
   emotional_impact |-> <<>>]

\* EnhancedCharacterAgent._update_memory, lines 142-161.
UpdateEnhancedRelationship(enhanced, agent_id, message, state) ==
  LET rel == IF agent_id \in DOMAIN enhanced THEN enhanced[agent_id]
             ELSE NewEnhancedRelationship
  IN [o \in DOMAIN enhanced \cup {agent_id} |->
        IF o = agent_id
        THEN [interaction_count |-> rel.interaction_count + 1,
              sentiment |-> Sentiment(message, rel.sentiment),
              emotional_impact |-> Append(rel.emotional_impact, state.mood)]
        ELSE enhanced[o]]

\* EnhancedCharacterAgent._update_memory, lines 164-167: the relationship
\* data.
AnalysedData(enhanced, agent_id, message) ==
  [last_interaction |-> message,
   sentiment |-> Sentiment(message,
                           IF agent_id \in DOMAIN enhanced
                           THEN enhanced[agent_id].sentiment
                           ELSE "neutral")]

\* The line BaseAgent.update_relationship logs.
LogEntry(agent_id, relationship_data) ==
  [agent_id |-> agent_id, data |-> relationship_data]

\* No call is being handled.
NoCall == [message |-> <<>>, context |-> NoContext, prompt |-> <<>>]

\* The agent as it is constructed.
EnhancedInit ==
  /\ emotional_state = InitialEmotionalState
  /\ emotional_states = <<>>
  /\ enhanced_relationships = <<>>
  /\ relationship_log = <<>>
  /\ processing = NoCall
  /\ recall_query = ""
  /\ recalled = <<>>
  /\ agent_memory = [a \in Agents |-> EmptyMemory]

(***************************************************************************)
(* BaseAgent.recall.  An event is serialised as json.dumps writes a dict   *)
(* of strings: the keys in insertion order, ": " after a key and ", "      *)
(* after a value.  No text of the model holds a character json.dumps       *)
(* escapes.                                                                *)
(***************************************************************************)
\* datetime.isoformat() of the time now.
IsoFormat(now) == "2025-01-01T00:00:0" \o ToString(now)

\* json.dumps(memory) of an event {"type", "content", "timestamp"}.
JsonDumps(memory_event) ==
  "{\"type\": \"" \o memory_event.type
    \o "\", \"content\": \"" \o memory_event.content
    \o "\", \"timestamp\": \"" \o IsoFormat(memory_event.timestamp)
    \o "\"}"

\* str.split(): the maximal runs of characters other than white space.
Split(query) ==
  { SubSeq(query, run[1], run[2]) :
      run \in { r \in (1..Len(query)) \X (1..Len(query)) :
                  /\ r[1] <= r[2]
                  /\ \A k \in r[1]..r[2] : SubSeq(query, k, k) # " "
                  /\ r[1] = 1 \/ SubSeq(query, r[1] - 1, r[1] - 1) = " "
                  /\ r[2] = Len(query)
                       \/ SubSeq(query, r[2] + 1, r[2] + 1) = " " } }

\* Queries: of the test, of two tokens and in capitals, empty, of white
\* space only, matching nothing, and a key of every event.
Queries == {"fiber", "Moriarty", "MORIARTY  fiber", "", "  ", "zebra",
            "type"}

\* query.lower().split(), worked out once for the queries of the model.
QueryWords == [query \in Queries |-> Split(Lower(query))]

\* any(word in memory_str for word in query_lower.split())
EventMatches(memory_event, query) ==
  \E memory_str \in {Lower(JsonDumps(memory_event))} :
     \E word \in (IF query \in Queries THEN QueryWords[query]
                  ELSE Split(Lower(query))) :
        Contains(memory_str, word)

\* Mutant of Recall: the serialised event is not lower-cased.
RECURSIVE RecallCaseSensitive(_, _)
RecallCaseSensitive(short_term, query) ==
  IF short_term = <<>> THEN <<>>
  ELSE (IF \E word \in QueryWords[query] :
              Contains(JsonDumps(Head(short_term)), word)
        THEN <<Head(short_term)>> ELSE <<>>)
       \o RecallCaseSensitive(Tail(short_term), query)

\* BaseAgent.recall: the loop over self.memory.short_term.
RECURSIVE Recall(_, _)
Recall(short_term, query) ==
  IF short_term = <<>> THEN <<>>
  ELSE (IF EventMatches(Head(short_term), query)
        THEN <<Head(short_term)>> ELSE <<>>)
       \o Recall(Tail(short_term), query)

\* The events of test_character_memory and one more.
ClueEvent == [type |-> "clue", content |-> "Found a blue fiber"]
SuspectEvent == [type |-> "suspect",
                 content |-> "Professor Moriarty mentioned"]
NoteEvent == [type |-> "note", content |-> "Nothing of interest"]

RecallEvents == {ClueEvent, SuspectEvent, NoteEvent}

(***************************************************************************)
(* CharacterAgent.__init__ and _load_character_file.  A dict is a function *)
(* of its keys; an optional argument is a record that says whether it was  *)
(* given.  The content of a file is the dict json.load returns, or is      *)
(* malformed and json.load raises.  BaseAgent.__init__ is taken to         *)
(* succeed: the service configuration is not part of the descriptor.       *)
(***************************************************************************)
NoFile == "<None>"
SherlockFile == "characters/sherlock_holmes.json"
WatsonFile == "characters/dr_watson.json"
BlankFile == "characters/blank.json"
BrokenFile == "characters/broken.json"
CharacterFiles == {SherlockFile, WatsonFile, BlankFile, BrokenFile}

NoCharacterData == [given |-> FALSE, dict |-> <<>>]
EmptyCharacterData == [given |-> TRUE, dict |-> <<>>]
MycroftData == [given |-> TRUE, dict |-> [name |-> "Mycroft Holmes"]]
CharacterDatas == {NoCharacterData, EmptyCharacterData, MycroftData}

\* What json.load gives for a file that exists.
Malformed == [malformed |-> TRUE, dict |-> <<>>]
Descriptor(dict) == [malformed |-> FALSE, dict |-> dict]
FileContent(character_file) ==
  CASE character_file = SherlockFile
         -> Descriptor([name |-> "Sherlock Holmes"])
    [] character_file = WatsonFile -> Descriptor([name |-> "Dr. Watson"])
    [] character_file = BlankFile -> Descriptor(<<>>)
    [] OTHER -> Malformed

NoError == "none"
NoConstructCall == [agent_id |-> NoAgent, character_file |-> NoFile,
                    character_data |-> NoCharacterData]
NotConstructed == [agent_id |-> NoAgent, name |-> ""]

\* Lines 18 and 20: the truth value of a str and of an Optional[Dict].
FileGiven(character_file) == character_file \notin {NoFile, ""}
DataGiven(character_data) ==
  character_data.given /\ DOMAIN character_data.dict # {}

\* Lines 23 and 43-48: character_data.get("name", "Unknown") and the agent
\* BaseAgent.__init__ sets up.
ConstructedAgent(agent_id, dict) ==
  [agent_id |-> agent_id,
   name |-> IF "name" \in DOMAIN dict THEN dict.name ELSE "Unknown"]

\* Mutant of CharacterAgentInit: a descriptor that cannot be had gives an
\* agent without a name instead of an exception.
CharacterAgentInitLenient(agent_id, character_file, character_data, files) ==
  IF FileGiven(character_file) /\ character_file \in files
       /\ ~FileContent(character_file).malformed
  THEN [raised |-> NoError, opened |-> 1,
        agent |-> ConstructedAgent(agent_id, FileContent(character_file).dict)]
  ELSE [raised |-> NoError, opened |-> 0,
        agent |-> ConstructedAgent(agent_id, character_data.dict)]

\* CharacterAgent.__init__, with _load_character_file: the exception that
\* leaves the constructor, the agent constructed and the files opened.
CharacterAgentInit(agent_id, character_file, character_data, files) ==
  IF FileGiven(character_file)
  THEN IF character_file \notin files
       THEN [raised |-> "FileNotFoundError", opened |-> 0,
             agent |-> NotConstructed]
       ELSE IF FileContent(character_file).malformed
       THEN [raised |-> "JSONDecodeError", opened |-> 1,
             agent |-> NotConstructed]
       ELSE [raised |-> NoError, opened |-> 1,
             agent |-> ConstructedAgent(agent_id,
                                        FileContent(character_file).dict)]
  ELSE IF ~DataGiven(character_data)
  THEN [raised |-> "ValueError", opened |-> 0, agent |-> NotConstructed]
  ELSE [raised |-> NoError, opened |-> 0,
        agent |-> ConstructedAgent(agent_id, character_data.dict)]

\* No constructor has been called.
NothingConstructed ==
  /\ construct_call = NoConstructCall
  /\ constructed = <<>>
  /\ raised = NoError
  /\ opened = 0

\* The memories as they are before any call.
MemoriesInit ==
  /\ memory = EmptyMemory
  /\ remembered = <<>>
  /\ state_blob = NoBlob
  /\ fresh_memory = EmptyMemory
  /\ clock = 0
  /\ conversations = <<>>
  /\ relationships = <<>>
  /\ varied = 0
  /\ EnhancedInit
  /\ NothingConstructed
  /\ identity = AgentIdentity
  /\ chat_history = <<>>

\* The memories before any call, with the character files of the examples.
StoreInit ==
  /\ MemoriesInit
  /\ file_system = {SherlockFile, WatsonFile}

(***************************************************************************)
(* CharacterDrivenConversation                                             *)
(***************************************************************************)
MaxTurnsReached == <<"max_turns_reached">>
NoReply == [kind |-> "pending", text |-> <<>>]
NoData == [response |-> <<>>, wants_to_end |-> FALSE,
           reasoning |-> <<>>, confidence |-> 0]
NoOutput == [kind |-> "none", data |-> NoData]

\* Mutant of TurnCall: the context carries the last four records.
TurnCallLastFour ==
  [kind |-> "turn", agent |-> current_listener,
   message |-> current_message, reasoning |-> <<>>,
   from_agent |-> current_speaker,
   conversation_turn |-> turn_count + 1,
   conversation_history |-> LastN(conversation_history, RecentTurns + 1)]

\* The call the listener's process_message makes for a turn: the message of
\* the prompt and the context dict passed with it.
TurnCall == [kind |-> "turn", agent |-> current_listener,
             message |-> current_message, reasoning |-> <<>>,
             from_agent |-> current_speaker,
             conversation_turn |-> turn_count + 1,
             conversation_history |->
               LastN(conversation_history, RecentTurns)]

\* The context of a call as the agents read it: that of a consensus call
\* (lines 255-258) carries the turn counter and no from_agent.
CallContext(call) ==
  IF call.kind = "turn" THEN Context(call.from_agent, call.conversation_turn)
  ELSE Context(NoAgent, call.conversation_turn)

\* The message the agent called gives to think and remembers.
CallPrompt(call) ==
  CharacterPrompt(agent_memory[call.agent], call.message, CallContext(call))

\* Mutant of RememberedBy: the event is stored in the memory of both agents.
RememberedByBoth(memories, agent, event, now) ==
  [a \in Agents |-> AddShortTermMemory(memories[a], event, now)]

\* CharacterAgent.process_message, lines 104-121, of the agent called: the
\* memories of the two agents once it has remembered the call.
RememberedBy(memories, agent, event, now) ==
  [memories EXCEPT ![agent] = AddShortTermMemory(memories[agent], event, now)]

\* Mutant of RelatedBy: the relationship is updated whatever the context.
RelatedByAnyone(memories, call) ==
  [memories EXCEPT ![call.agent] =
     AddRelationship(memories[call.agent], call.from_agent,
       PositiveData(memories[call.agent],
         memories[call.agent].short_term[
           Len(memories[call.agent].short_term)].message,
         CallContext(call)))]

\* CharacterAgent.process_message, lines 127-131, of the agent called: the
\* memories of the two agents once think has returned.  The prompt is the
\* message of the event the agent remembered last.
RelatedBy(memories, call) ==
  IF HasFromAgent(CallContext(call))
  THEN [memories EXCEPT ![call.agent] =
          AddRelationship(memories[call.agent], call.from_agent,
            PositiveData(memories[call.agent],
              memories[call.agent].short_term[
                Len(memories[call.agent].short_term)].message,
              CallContext(call)))]
  ELSE memories

\* Mutant of ConsensusCall: the listener is asked about its own proposal.
ConsensusCallToListener(data) ==
  [kind |-> "consensus", agent |-> current_listener,
   message |-> data.response, reasoning |-> data.reasoning,
   from_agent |-> NoAgent, conversation_turn |-> turn_count,
   conversation_history |-> <<>>]

\* The call _get_ending_consensus makes: the prompt quotes the listener's
\* response and reasoning; the context has no from_agent and no history.
ConsensusCall(data) == [kind |-> "consensus", agent |-> current_speaker,
                        message |-> data.response,
                        reasoning |-> data.reasoning,
                        from_agent |-> NoAgent,
                        conversation_turn |-> turn_count,
                        conversation_history |-> <<>>]

CallEntry(call) == [kind |-> call.kind, turn |-> call.conversation_turn,
                    agent |-> call.agent]

\* Mutant of LoopGuard: off by one.
LoopGuardOffByOne(t) == t <= MaxTurns

\* while self.turn_count < self.max_turns
LoopGuard(t) == t < MaxTurns

\* Mutant of Decide: the policy looks at the confidence alone.
DecideByConfidence(data) ==
  IF data.confidence >= HighConfidence THEN "end"
  ELSE IF data.confidence >= MediumConfidence THEN "consensus"
  ELSE "continue"

\* Mutant of Decide: the high threshold is exclusive.
DecideAboveHigh(data) ==
  IF data.wants_to_end
  THEN IF data.confidence > HighConfidence THEN "end"
       ELSE IF data.confidence >= MediumConfidence THEN "consensus"
       ELSE "continue"
  ELSE "continue"

\* Mutant of Decide: the medium threshold is one too low.
DecideLowMedium(data) ==
  IF data.wants_to_end
  THEN IF data.confidence >= HighConfidence THEN "end"
       ELSE IF data.confidence >= MediumConfidence - 1 THEN "consensus"
       ELSE "continue"
  ELSE "continue"

\* The ending policy of lines 70-92 on a parsed decision.
Decide(data) ==
  IF data.wants_to_end
  THEN IF data.confidence >= HighConfidence THEN "end"
       ELSE IF data.confidence >= MediumConfidence THEN "consensus"
       ELSE "continue"
  ELSE "continue"

\* Mutant of MutualAgreement: an agreed end is reported as a decision.
MutualAgreementAsDecision(reasoning) == <<"character_decision:">> \o reasoning

\* Mutant of CharacterDecision: the reasoning is left out of the reason.
CharacterDecisionBare(reasoning) == <<"character_decision:">>

CharacterDecision(reasoning) == <<"character_decision:">> \o reasoning
MutualAgreement(reasoning) == <<"mutual_agreement:">> \o reasoning

\* Mutant of AgreementReason: the listener's reasoning is quoted.
AgreementReasonOfListener(other_agent_decision, data) ==
  MutualAgreement(data.reasoning)

\* Line 87: the reason quotes the consulted agent's reasoning.
AgreementReason(other_agent_decision, data) ==
  MutualAgreement(other_agent_decision.reasoning)

TurnRecord(data) ==
  [turn |-> turn_count, speaker |-> Name(current_speaker),
   listener |-> Name(current_listener), message |-> current_message,
   response |-> data.response, wants_to_end |-> data.wants_to_end,
   ending_reasoning |-> data.reasoning, confidence |-> data.confidence]

Init ==
  /\ pc = "idle"
  /\ turn_count = 0
  /\ conversation_history = <<>>
  /\ current_speaker = NoAgent
  /\ current_listener = NoAgent
  /\ current_message = <<>>
  /\ ending_reason = <<>>
  /\ response_data = NoData
  /\ in_flight = {}
  /\ returned = NoReply
  /\ calls = <<>>
  /\ marked = 0
  /\ parser_input = <<>>
  /\ parser_output = NoOutput
  /\ StoreInit

\* Lines 32-36.
Start ==
  /\ pc = "idle"
  /\ \E topic \in Topics : current_message' = topic
  /\ current_speaker' = "agent1"
  /\ current_listener' = "agent2"
  /\ ending_reason' = MaxTurnsReached
  /\ pc' = "loop"
  /\ UNCHANGED <<turn_count, conversation_history, response_data, in_flight,
                 returned, calls, marked, parser_vars,
                 store_vars>>

\* Lines 38-47 and 110-157: the loop test holds, the turn is counted and the
\* listener is asked.
BeginTurn ==
  /\ pc = "loop"
  /\ LoopGuard(turn_count)
  /\ turn_count' = turn_count + 1
  /\ in_flight' = in_flight \cup {TurnCall}
  /\ calls' = Append(calls, CallEntry(TurnCall))
  /\ agent_memory' =
       RememberedBy(agent_memory, TurnCall.agent,
                    PromptEvent(CallPrompt(TurnCall), CallContext(TurnCall)),
                    clock)
  /\ clock' = clock + 1
  /\ pc' = "awaiting_response"
  /\ UNCHANGED <<conversation_history, current_speaker, current_listener,
                 current_message, ending_reason, response_data, returned,
                 marked, parser_vars, agent_vars, character_memory_vars,
                 enhanced_vars>>

\* Lines 38 and 101-105: the loop test fails.
LoopExit ==
  /\ pc = "loop"
  /\ ~LoopGuard(turn_count)
  /\ pc' = "ended"
  /\ UNCHANGED <<turn_count, conversation_history, current_speaker,
                 current_listener, current_message, ending_reason,
                 response_data, in_flight, returned, calls, marked, parser_vars,
                 store_vars>>

\* The generation collaborator answers the call in flight (or the call
\* fails), think turns the outcome into a text and process_message returns it.
GenerationReturns ==
  /\ returned = NoReply
  /\ \E call \in in_flight :
       \E outcome \in Outcomes(IF call.kind = "turn" THEN TurnReplies
                               ELSE ConsensusReplies) :
         LET odd == call.kind = "turn" /\ outcome # Replied(PlainReply)
         IN /\ odd => marked < MaxMarked
            /\ marked' = IF odd THEN marked + 1 ELSE marked
            /\ in_flight' = in_flight \ {call}
            /\ returned' = [kind |-> outcome.kind,
                            text |-> ProcessMessage(outcome)]
            /\ agent_memory' = RelatedBy(agent_memory, call)
  /\ UNCHANGED <<pc, turn_count, conversation_history, current_speaker,
                 current_listener, current_message, ending_reason,
                 response_data, calls, parser_vars, agent_vars, clock,
                 character_memory_vars, enhanced_vars>>

\* Mutant of SwitchSpeakers: the roles are not swapped.
SwitchSpeakersKeepRoles(data) ==
  /\ UNCHANGED <<current_speaker, current_listener>>
  /\ current_message' = data.response

\* Mutant of SwitchSpeakers: the message of the turn is said again.
SwitchSpeakersStaleMessage(data) ==
  /\ current_speaker' = current_listener
  /\ current_listener' = current_speaker
  /\ current_message' = current_message

\* Lines 94-96.
SwitchSpeakers(data) ==
  /\ current_speaker' = current_listener
  /\ current_listener' = current_speaker
  /\ current_message' = data.response

\* Lines 49-99: the reply of the turn is parsed and recorded and the ending
\* policy applied.
TurnResumes ==
  /\ pc = "awaiting_response"
  /\ returned # NoReply
  /\ \E data \in {ParseIntelligentResponse(returned.text)} :
     \E decision \in {Decide(data)} :
        /\ response_data' = data
        /\ conversation_history' =
             Append(conversation_history, TurnRecord(data))
        /\ returned' = NoReply
        /\ CASE decision = "end" ->
                  /\ ending_reason' = CharacterDecision(data.reasoning)
                  /\ pc' = "ended"
                  /\ UNCHANGED <<current_speaker, current_listener,
                                 current_message, in_flight, calls,
                                 agent_memory, clock>>
             [] decision = "consensus" ->
                  /\ in_flight' = in_flight \cup {ConsensusCall(data)}
                  /\ calls' = Append(calls, CallEntry(ConsensusCall(data)))
                  /\ agent_memory' =
                       RememberedBy(agent_memory, ConsensusCall(data).agent,
                         PromptEvent(CallPrompt(ConsensusCall(data)),
                                     CallContext(ConsensusCall(data))),
                         clock)
                  /\ clock' = clock + 1
                  /\ pc' = "awaiting_consensus"
                  /\ UNCHANGED <<current_speaker, current_listener,
                                 current_message, ending_reason>>
             [] OTHER ->
                  /\ SwitchSpeakers(data)
                  /\ pc' = "loop"
                  /\ UNCHANGED <<ending_reason, in_flight, calls,
                                 agent_memory, clock>>
  /\ UNCHANGED <<turn_count, marked, parser_vars, agent_vars,
                 character_memory_vars, enhanced_vars>>

\* Mutant of ConsensusResumes: the orchestrator does not wait for the reply
\* to the consensus call.
ConsensusResumesWithoutReply ==
  /\ pc = "awaiting_consensus"
  /\ \E other_agent_decision \in {ParseConsensus(returned.text)} :
        IF other_agent_decision.agrees_to_end
        THEN /\ ending_reason' =
                  MutualAgreement(other_agent_decision.reasoning)
             /\ pc' = "ended"
             /\ UNCHANGED <<current_speaker, current_listener,
                            current_message>>
        ELSE /\ current_speaker' = current_listener
             /\ current_listener' = current_speaker
             /\ current_message' = response_data.response
             /\ pc' = "loop"
             /\ UNCHANGED ending_reason
  /\ returned' = NoReply
  /\ UNCHANGED <<turn_count, conversation_history, response_data, in_flight,
                 calls, marked, parser_vars, store_vars>>

\* Mutant of ConsensusResumes: the consensus check is recorded as a turn.
ConsensusResumesRecorded ==
  /\ pc = "awaiting_consensus"
  /\ returned # NoReply
  /\ \E other_agent_decision \in {ParseConsensus(returned.text)} :
        IF other_agent_decision.agrees_to_end
        THEN /\ ending_reason' =
                  AgreementReason(other_agent_decision, response_data)
             /\ pc' = "ended"
             /\ UNCHANGED <<current_speaker, current_listener,
                            current_message>>
        ELSE /\ SwitchSpeakers(response_data)
             /\ pc' = "loop"
             /\ UNCHANGED ending_reason
  /\ returned' = NoReply
  /\ conversation_history' =
       Append(conversation_history, TurnRecord(response_data))
  /\ UNCHANGED <<turn_count, response_data, in_flight, calls, marked,
                 parser_vars, store_vars>>

\* Lines 260-279 and 86-99: the consensus reply is parsed; agreement ends the
\* conversation, anything else lets it go on.
ConsensusResumes ==
  /\ pc = "awaiting_consensus"
  /\ returned # NoReply
  /\ \E other_agent_decision \in {ParseConsensus(returned.text)} :
        IF other_agent_decision.agrees_to_end
        THEN /\ ending_reason' =
                  AgreementReason(other_agent_decision, response_data)
             /\ pc' = "ended"
             /\ UNCHANGED <<current_speaker, current_listener,
                            current_message>>
        ELSE /\ SwitchSpeakers(response_data)
             /\ pc' = "loop"
             /\ UNCHANGED ending_reason
  /\ returned' = NoReply
  /\ UNCHANGED <<turn_count, conversation_history, response_data, in_flight,
                 calls, marked, parser_vars,
                 store_vars>>

\* Lines 104-108 and 281-288: the ending reason is reported and the analysis
\* shown; the analysis takes len() of every recorded response, which raises
\* TypeError on None.
ShowAnalysis ==
  /\ pc = "ended"
  /\ pc' = IF \E i \in 1..Len(conversation_history) :
                conversation_history[i].response = NoneText
           THEN "aborted" ELSE "done"
  /\ UNCHANGED <<turn_count, conversation_history, current_speaker,
                 current_listener, current_message, ending_reason,
                 response_data, in_flight, returned, calls, marked, parser_vars,
                 store_vars>>

Next ==
  \/ Start
  \/ BeginTurn
  \/ LoopExit
  \/ GenerationReturns
  \/ TurnResumes
  \/ ConsensusResumes
  \/ ShowAnalysis

Spec == Init /\ [][Next]_vars

\* Every generation call returns and the event loop resumes the coroutine.
FairSpec == Spec /\ WF_vars(Next)

(***************************************************************************)
(* The two parsers taken alone, on every text of up to MaxTextLen lexemes  *)
(* and on None.                                                            *)
(***************************************************************************)
ParserAlphabet ==
  { "RESPONSE:", "ENDING_ASSESSMENT:", "Want to end:", "Agree to end:",
    "Reasoning:", "Confidence:", "yes", "NO", "0", "7", "12", "high", "fine" }

Texts(n) == UNION {[1..k -> ParserAlphabet] : k \in 0..n}

ParserInit ==
  /\ pc = "parser"
  /\ parser_input \in Texts(MaxTextLen) \cup {NoneText}
  /\ parser_output = NoOutput
  /\ turn_count = 0
  /\ conversation_history = <<>>
  /\ current_speaker = NoAgent
  /\ current_listener = NoAgent
  /\ current_message = <<>>
  /\ ending_reason = <<>>
  /\ response_data = NoData
  /\ in_flight = {}
  /\ returned = NoReply
  /\ calls = <<>>
  /\ marked = 0
  /\ StoreInit

\* _parse_intelligent_response(full_response, agent_name)
ParseTurnReply ==
  /\ pc = "parser"
  /\ parser_output' = [kind |-> "turn",
                       data |-> ParseIntelligentResponse(parser_input)]
  /\ pc' = "parsed"
  /\ UNCHANGED <<turn_count, conversation_history, current_speaker,
                 current_listener, current_message, ending_reason,
                 response_data, in_flight, returned, calls, marked,
                 parser_input, store_vars>>

\* The parse of lines 260-279.
ParseConsensusReply ==
  /\ pc = "parser"
  /\ parser_output' = [kind |-> "consensus",
                       data |-> ParseConsensus(parser_input)]
  /\ pc' = "parsed"
  /\ UNCHANGED <<turn_count, conversation_history, current_speaker,
                 current_listener, current_message, ending_reason,
                 response_data, in_flight, returned, calls, marked,
                 parser_input, store_vars>>

ParserNext == ParseTurnReply \/ ParseConsensusReply

ParserSpec == ParserInit /\ [][ParserNext]_vars

(***************************************************************************)
(* One agent's memory taken alone: the calls of remember,                  *)
(* update_relationship, get_state, and of load_state on an agent just      *)
(* constructed, in any order.  The caller holds one exported state at a    *)
(* time and drops it once loaded.                                          *)
(***************************************************************************)
orchestrator_vars == <<turn_count, conversation_history, current_speaker,
                       current_listener, current_message, ending_reason,
                       response_data, in_flight, returned, calls, marked,
                       agent_memory>>

\* No conversation is run and no text is parsed.
NoRun ==
  /\ turn_count = 0
  /\ conversation_history = <<>>
  /\ current_speaker = NoAgent
  /\ current_listener = NoAgent
  /\ current_message = <<>>
  /\ ending_reason = <<>>
  /\ response_data = NoData
  /\ in_flight = {}
  /\ returned = NoReply
  /\ calls = <<>>
  /\ marked = 0
  /\ parser_input = <<>>
  /\ parser_output = NoOutput

MemoryInit ==
  /\ pc = "agent"
  /\ NoRun
  /\ StoreInit

\* BaseAgent.remember
Remember ==
  /\ pc = "agent"
  /\ Len(remembered) < MaxRemembered
  /\ \E event \in Events :
       /\ memory' = AddShortTermMemory(memory, event, clock)
       /\ remembered' = Append(remembered, StoredEvent(event, clock))
  /\ clock' = clock + 1
  /\ UNCHANGED <<pc, orchestrator_vars, parser_vars, enhanced_vars, state_blob,
                 fresh_memory, character_memory_vars>>

\* BaseAgent.update_relationship
UpdateRelationship ==
  /\ pc = "agent"
  /\ \E other_agent_id \in OtherAgentIds, sentiment \in Sentiments :
       memory' = AddRelationship(memory, other_agent_id,
                                 RelationshipData(sentiment))
  /\ UNCHANGED <<pc, orchestrator_vars, parser_vars, enhanced_vars, remembered, state_blob,
                 fresh_memory, clock, character_memory_vars>>

\* BaseAgent.get_state
GetState ==
  /\ pc = "agent"
  /\ state_blob = NoBlob
  /\ fresh_memory = EmptyMemory
  /\ state_blob' = GetStateBlob(memory)
  /\ UNCHANGED <<pc, orchestrator_vars, parser_vars, enhanced_vars, memory, remembered,
                 fresh_memory, clock, character_memory_vars>>

\* BaseAgent.load_state on the agent just constructed.
LoadState ==
  /\ pc = "agent"
  /\ state_blob # NoBlob
  /\ fresh_memory' = LoadedMemory(state_blob)
  /\ state_blob' = NoBlob
  /\ UNCHANGED <<pc, orchestrator_vars, parser_vars, enhanced_vars, memory, remembered,
                 clock, character_memory_vars>>

\* BaseAgent.__init__: self.memory = AgentMemory() of another new agent.
NewAgent ==
  /\ pc = "agent"
  /\ state_blob = NoBlob
  /\ fresh_memory # EmptyMemory
  /\ fresh_memory' = EmptyMemory
  /\ UNCHANGED <<pc, orchestrator_vars, parser_vars, enhanced_vars, memory, remembered,
                 state_blob, clock, character_memory_vars>>

MemoryNext ==
  \/ Remember
  \/ UpdateRelationship
  \/ GetState
  \/ LoadState
  \/ NewAgent

MemorySpec == MemoryInit /\ [][MemoryNext]_vars

(***************************************************************************)
(* One CharacterMemory taken alone: any sequence of remember_interaction.  *)
(***************************************************************************)
CharacterMemoryInit ==
  /\ pc = "character_memory"
  /\ NoRun
  /\ StoreInit

\* CharacterMemory.remember_interaction
RememberInteraction ==
  /\ pc = "character_memory"
  /\ clock < MaxInteractions
  /\ \E other_agent_id \in OtherAgentIds, message \in Messages :
       LET before == IF other_agent_id \in DOMAIN conversations
                     THEN conversations[other_agent_id] ELSE <<>>
           interaction == Interaction(message, Utterance, clock,
                                      Len(before) + 1)
           plain == other_agent_id = "agent1" /\ message = LongMessage
       IN /\ ~plain => varied < MaxVaried
          /\ varied' = IF plain THEN varied ELSE varied + 1
          /\ conversations' =
               [o \in DOMAIN conversations \cup {other_agent_id} |->
                  IF o = other_agent_id THEN Append(before, interaction)
                  ELSE conversations[o]]
          /\ relationships' =
               CharacterMemoryUpdateRelationship(relationships,
                                                 other_agent_id, interaction)
  /\ clock' = clock + 1
  /\ UNCHANGED <<pc, orchestrator_vars, parser_vars, enhanced_vars, agent_vars>>

CharacterMemoryNext == RememberInteraction

CharacterMemorySpec == CharacterMemoryInit /\ [][CharacterMemoryNext]_vars

(***************************************************************************)
(* One EnhancedCharacterAgent taken alone: its caller makes one call at a  *)
(* time, as both orchestrators do, and counts its turns in turn_count.     *)
(* The usual call is the one TwoAgentConversation makes, with a message    *)
(* that holds no keyword; a run has at most MaxVaried other calls.         *)
(***************************************************************************)
\* Calls of process_message in one run.
MaxProcessed == 21

\* The context TwoAgentConversation builds at turn t for the listener of
\* agent1.
UsualContext(t) == Context("agent1", t)

UsualCall(t) == [message |-> PlainMessage, context |-> UsualContext(t)]

OtherCalls(t) ==
  { [message |-> GratefulMessage, context |-> UsualContext(t)],
    [message |-> TroubledMessage, context |-> UsualContext(t)],
    [message |-> PlainMessage, context |-> NoContext],
    [message |-> GratefulMessage, context |-> Context("agent3", NoInt)] }

UsualOutcome == Replied(Utterance)

OtherOutcomes == {Failed(e) : e \in ErrorTexts}

\* The variables no call of the agent touches.
idle_vars == <<conversation_history, current_speaker, current_listener,
               current_message, ending_reason, response_data, in_flight,
               returned, calls, marked, parser_vars, remembered, state_blob,
               fresh_memory, conversations, relationships, recall_query,
               recalled, agent_memory, construct_vars, base_vars>>

EnhancedAgentInit ==
  /\ pc = "ready"
  /\ NoRun
  /\ StoreInit

\* EnhancedCharacterAgent.process_message, lines 54-60, and
\* CharacterAgent.process_message, lines 104-124: up to the await of think.
ProcessMessageBegins ==
  /\ pc = "ready"
  /\ turn_count < MaxProcessed
  /\ \E call \in {UsualCall(turn_count + 1)} \cup OtherCalls(turn_count + 1) :
       /\ call # UsualCall(turn_count + 1) => varied < MaxVaried
       /\ varied' = IF call = UsualCall(turn_count + 1) THEN varied
                    ELSE varied + 1
       /\ \E state \in {UpdateEmotionalState(emotional_state, call.message,
                                             call.context)} :
          \E prompt \in {CharacterPrompt(memory,
                           BuildEnhancedMessage(call.message, call.context,
                                                state, memory,
                                                enhanced_relationships),
                           call.context)} :
            /\ emotional_state' = state
            /\ memory' = AddShortTermMemory(memory,
                           PromptEvent(prompt, call.context), clock)
            /\ processing' = [message |-> call.message,
                              context |-> call.context, prompt |-> prompt]
  /\ turn_count' = turn_count + 1
  /\ clock' = clock + 1
  /\ pc' = "thinking"
  /\ UNCHANGED <<emotional_states, enhanced_relationships, relationship_log,
                 idle_vars>>

\* CharacterAgent.process_message, lines 124-133, and
\* EnhancedCharacterAgent.process_message, lines 60-68: think returns, the
\* relationship is updated, then _update_memory runs.
ProcessMessageReturns ==
  /\ pc = "thinking"
  /\ \E outcome \in {UsualOutcome} \cup OtherOutcomes :
       /\ outcome # UsualOutcome => varied < MaxVaried
       /\ varied' = IF outcome = UsualOutcome THEN varied ELSE varied + 1
       /\ LET message == processing.message
              context == processing.context
              agent_id == context.from_agent
              response == ProcessMessage(outcome)
              positive == PositiveData(memory, processing.prompt, context)
              analysed == AnalysedData(enhanced_relationships, agent_id,
                                       message)
              greeted == IF HasFromAgent(context)
                         THEN AddRelationship(memory, agent_id, positive)
                         ELSE memory
              noted == AddShortTermMemory(greeted,
                         ReplyEvent(message, response, emotional_state),
                         clock)
          IN /\ emotional_states' =
                  AppendEmotionalState(emotional_states, emotional_state)
             /\ IF HasFromAgent(context)
                THEN /\ enhanced_relationships' =
                          UpdateEnhancedRelationship(enhanced_relationships,
                            agent_id, message, emotional_state)
                     /\ memory' = AddRelationship(noted, agent_id, analysed)
                     /\ relationship_log' =
                          relationship_log
                            \o <<LogEntry(agent_id, positive),
                                 LogEntry(agent_id, analysed)>>
                ELSE /\ memory' = noted
                     /\ UNCHANGED <<enhanced_relationships,
                                    relationship_log>>
  /\ clock' = clock + 1
  /\ processing' = NoCall
  /\ pc' = "ready"
  /\ UNCHANGED <<turn_count, emotional_state, idle_vars>>

\* Mutant of ResetEmotionalState: the snapshot log is emptied as well.
ResetEmotionalStateAndLog ==
  /\ pc = "ready"
  /\ varied < MaxVaried
  /\ emotional_state # InitialEmotionalState
  /\ emotional_state' = InitialEmotionalState
  /\ emotional_states' = <<>>
  /\ varied' = varied + 1
  /\ UNCHANGED <<pc, turn_count, clock, memory, enhanced_relationships,
                 relationship_log, processing, idle_vars>>

\* EnhancedCharacterAgent.reset_emotional_state, between two calls.
ResetEmotionalState ==
  /\ pc = "ready"
  /\ varied < MaxVaried
  /\ emotional_state # InitialEmotionalState
  /\ emotional_state' = InitialEmotionalState
  /\ varied' = varied + 1
  /\ UNCHANGED <<pc, turn_count, clock, memory, emotional_states,
                 enhanced_relationships, relationship_log, processing,
                 idle_vars>>

EnhancedAgentNext ==
  \/ ProcessMessageBegins
  \/ ProcessMessageReturns
  \/ ResetEmotionalState

EnhancedAgentSpec == EnhancedAgentInit /\ [][EnhancedAgentNext]_vars

(***************************************************************************)
(* An EnhancedCharacterAgent (agent2) and a plain CharacterAgent (agent1,  *)
(* whose memory is agent_memory["agent1"]), each processing messages, one  *)
(* call at a time.  processing holds the call under way, of either agent.  *)
(***************************************************************************)
\* The variables no call of the plain agent touches.
plain_idle_vars == <<turn_count, memory, emotional_state, emotional_states,
                     enhanced_relationships, relationship_log,
                     conversation_history, current_speaker, current_listener,
                     current_message, ending_reason, response_data,
                     in_flight, returned, calls, marked, parser_vars,
                     remembered, state_blob, fresh_memory, conversations,
                     relationships, recall_query, recalled, construct_vars,
                     base_vars>>

\* CharacterAgent.process_message, lines 104-124: up to the await of think.
PlainProcessMessageBegins ==
  /\ pc = "ready"
  /\ varied < MaxVaried
  /\ \E message \in {PlainMessage, GratefulMessage},
        context \in {Context("agent2", turn_count + 1), NoContext} :
       \E prompt \in {CharacterPrompt(agent_memory["agent1"], message,
                                      context)} :
         /\ agent_memory' = RememberedBy(agent_memory, "agent1",
                                         PromptEvent(prompt, context), clock)
         /\ processing' = [message |-> message, context |-> context,
                           prompt |-> prompt]
  /\ varied' = varied + 1
  /\ clock' = clock + 1
  /\ pc' = "plain_thinking"
  /\ UNCHANGED plain_idle_vars

\* Mutant of PlainProcessMessageReturns: the event of a call that failed is
\* taken out of the memory again.
PlainProcessMessageForgetsFailure ==
  /\ pc = "plain_thinking"
  /\ \E outcome \in {UsualOutcome} \cup OtherOutcomes :
       LET mem == agent_memory["agent1"]
           kept == IF outcome.kind = "failure"
                   THEN [mem EXCEPT !.short_term =
                           SubSeq(@, 1, Len(@) - 1)]
                   ELSE mem
       IN agent_memory' =
            [agent_memory EXCEPT !["agent1"] =
               IF HasFromAgent(processing.context)
               THEN AddRelationship(kept, processing.context.from_agent,
                      PositiveData(kept, processing.prompt,
                                   processing.context))
               ELSE kept]
  /\ processing' = NoCall
  /\ pc' = "ready"
  /\ UNCHANGED <<clock, varied, plain_idle_vars>>

\* CharacterAgent.process_message, lines 124-133: think returns, with a
\* reply or with the apology, and the relationship is updated.
PlainProcessMessageReturns ==
  /\ pc = "plain_thinking"
  /\ \E outcome \in {UsualOutcome} \cup OtherOutcomes :
       LET mem == agent_memory["agent1"]
       IN agent_memory' =
            [agent_memory EXCEPT !["agent1"] =
               IF HasFromAgent(processing.context)
               THEN AddRelationship(mem, processing.context.from_agent,
                      PositiveData(mem, processing.prompt,
                                   processing.context))
               ELSE mem]
  /\ processing' = NoCall
  /\ pc' = "ready"
  /\ UNCHANGED <<clock, varied, plain_idle_vars>>

AgentsNext ==
  \/ EnhancedAgentNext
  \/ PlainProcessMessageBegins
  \/ PlainProcessMessageReturns

AgentsSpec == EnhancedAgentInit /\ [][AgentsNext]_vars

(***************************************************************************)
(* The emotional state of one EnhancedCharacterAgent taken alone: any      *)
(* sequence of _update_emotional_state, as process_message calls it, and   *)
(* of reset_emotional_state.  processing holds the arguments of the last   *)
(* update.                                                                 *)
(***************************************************************************)
\* The greatest turn counter a context carries.
MaxTurnCounter == 11

EmotionContexts ==
  {NoContext, Context("agent1", NoInt)}
    \cup {Context("agent1", t) : t \in 0..MaxTurnCounter}

EmotionInit ==
  /\ pc = "emotion"
  /\ NoRun
  /\ StoreInit

\* EnhancedCharacterAgent._update_emotional_state
UpdateEmotion ==
  /\ pc = "emotion"
  /\ \E message \in SpokenMessages, context \in EmotionContexts :
       /\ emotional_state' =
            UpdateEmotionalState(emotional_state, message, context)
       /\ processing' = [message |-> message, context |-> context,
                         prompt |-> <<>>]
  /\ UNCHANGED <<pc, turn_count, clock, varied, memory, emotional_states,
                 enhanced_relationships, relationship_log, idle_vars>>

\* EnhancedCharacterAgent.reset_emotional_state
ResetEmotion ==
  /\ pc = "emotion"
  /\ emotional_state' = InitialEmotionalState
  /\ processing' = NoCall
  /\ UNCHANGED <<pc, turn_count, clock, varied, memory, emotional_states,
                 enhanced_relationships, relationship_log, idle_vars>>

EmotionNext ==
  \/ UpdateEmotion
  \/ ResetEmotion

EmotionSpec == EmotionInit /\ [][EmotionNext]_vars

(***************************************************************************)
(* One agent's memory under remember and recall, in any order.             *)
(***************************************************************************)
\* Calls of remember in one run of recalls.
MaxRecallEvents == 3

RecallInit ==
  /\ pc = "recall"
  /\ NoRun
  /\ StoreInit

\* BaseAgent.remember
RememberForRecall ==
  /\ pc \in {"recall", "recalled"}
  /\ Len(memory.short_term) < MaxRecallEvents
  /\ \E event \in RecallEvents :
       memory' = AddShortTermMemory(memory, event, clock)
  /\ clock' = clock + 1
  /\ pc' = "recall"
  /\ UNCHANGED <<turn_count, varied, emotional_state, emotional_states,
                 enhanced_relationships, relationship_log, processing,
                 idle_vars>>

\* BaseAgent.recall
RecallQuery ==
  /\ pc \in {"recall", "recalled"}
  /\ \E query \in Queries :
       /\ recall_query' = query
       /\ recalled' = Recall(memory.short_term, query)
  /\ pc' = "recalled"
  /\ UNCHANGED <<turn_count, clock, varied, memory, emotional_state,
                 emotional_states, enhanced_relationships, relationship_log,
                 processing, conversation_history, current_speaker,
                 current_listener, current_message, ending_reason,
                 response_data, in_flight, returned, calls, marked,
                 parser_vars, remembered, state_blob, fresh_memory,
                 conversations, relationships, agent_memory,
                 construct_vars, base_vars>>

RecallNext ==
  \/ RememberForRecall
  \/ RecallQuery

RecallSpec == RecallInit /\ [][RecallNext]_vars

(***************************************************************************)
(* The construction of agents taken alone, as create_agents_from_files     *)
(* does it: one CharacterAgent after the other, and an exception that      *)
(* leaves a constructor leaves the caller as well.  Any of the character   *)
(* files may be missing.                                                   *)
(***************************************************************************)
\* Agents constructed in one run.
MaxConstructed == 2

ConstructInit ==
  /\ pc = "construct"
  /\ NoRun
  /\ MemoriesInit
  /\ file_system \in SUBSET CharacterFiles

\* CharacterAgent(agent_id, character_file, character_data)
ConstructAgent ==
  /\ pc = "construct"
  /\ Len(constructed) < MaxConstructed
  /\ \E character_file \in {NoFile, ""} \cup CharacterFiles,
        character_data \in CharacterDatas :
       LET agent_id == "agent" \o ToString(Len(constructed) + 1)
           made == CharacterAgentInit(agent_id, character_file,
                                      character_data, file_system)
       IN /\ construct_call' = [agent_id |-> agent_id,
                                character_file |-> character_file,
                                character_data |-> character_data]
          /\ raised' = made.raised
          /\ opened' = opened + made.opened
          /\ constructed' = IF made.raised = NoError
                            THEN Append(constructed, made.agent)
                            ELSE constructed
          /\ pc' = IF made.raised = NoError THEN "construct"
                   ELSE "construct_failed"
  /\ UNCHANGED <<orchestrator_vars, parser_vars, agent_vars, clock,
                 character_memory_vars, emotional_state, emotional_states,
                 enhanced_relationships, relationship_log, processing,
                 recall_query, recalled, file_system, base_vars>>

ConstructNext == ConstructAgent

ConstructSpec == ConstructInit /\ [][ConstructNext]_vars

(***************************************************************************)
(* One orchestrator used for several runs: start_natural_conversation is   *)
(* called again once a run is over, be it by its return or by the          *)
(* exception the analysis raised.                                          *)
(***************************************************************************)
\* Mutant of StartAgain: the counter and the log start afresh with the run.
StartAgainAfresh ==
  /\ pc \in {"done", "aborted"}
  /\ \E topic \in Topics : current_message' = topic
  /\ current_speaker' = "agent1"
  /\ current_listener' = "agent2"
  /\ ending_reason' = MaxTurnsReached
  /\ turn_count' = 0
  /\ conversation_history' = <<>>
  /\ pc' = "loop"
  /\ UNCHANGED <<response_data, in_flight, returned, calls, marked,
                 parser_vars, store_vars>>

\* Lines 32-36, on an orchestrator that has run before: __init__ (lines
\* 18-19) is the one place that sets the counter and the log.
StartAgain ==
  /\ pc \in {"done", "aborted"}
  /\ \E topic \in Topics : current_message' = topic
  /\ current_speaker' = "agent1"
  /\ current_listener' = "agent2"
  /\ ending_reason' = MaxTurnsReached
  /\ pc' = "loop"
  /\ UNCHANGED <<turn_count, conversation_history, response_data, in_flight,
                 returned, calls, marked, parser_vars, store_vars>>

RerunNext ==
  \/ Next
  \/ StartAgain

RerunSpec == Init /\ [][RerunNext]_vars

(***************************************************************************)
(* One agent whose state is loaded from persistence: remember,             *)
(* update_relationship, think and load_state in any order.  The state      *)
(* loaded is what the caller hands over: the export of another agent, with *)
(* a short-term list of any length, or a dict that lacks keys.             *)
(***************************************************************************)
\* Calls of remember in one run, messages of the transcript before think is
\* called no more, and the short-term events of the longest state loaded.
MaxLoadRemembered == 2
MaxTranscript == 3
OverfullLength == 22

\* The short-term list of a state: n events, the oldest first.
Archive(n) ==
  [i \in 1..n |-> [type |-> "archived", content |-> "An old case",
                   timestamp |-> i - n - 1]]

\* get_state of another agent whose short-term list holds n events.
ExportedState(n) ==
  [agent_id |-> "agent1", name |-> Name("agent1"),
   personality |-> [temperament |-> "aloof"],
   memory |-> [short_term |-> Archive(n), long_term |-> <<>>,
               relationships |->
                 <<[agent_id |-> "agent3",
                    data |-> RelationshipData("concerned")]>>],
   chat_history |-> <<[role |-> "system", content |-> <<"You", "are",
                                                         "Holmes">>]>>]

OverfullState == ExportedState(OverfullLength)
FullState == ExportedState(ShortTermCap)
NoMemoryState ==
  [agent_id |-> "agent1", name |-> Name("agent1"),
   personality |-> [temperament |-> "aloof"], chat_history |-> <<>>]
NoTranscriptState ==
  [agent_id |-> "agent1", name |-> Name("agent1"),
   personality |-> [temperament |-> "aloof"],
   memory |-> [short_term |-> Archive(1)]]
NameOnlyState == [name |-> Name("agent1")]

LoadableStates == {OverfullState, FullState, NoMemoryState,
                   NoTranscriptState, NameOnlyState}

\* The variables no call of this agent touches.
load_idle_vars == <<turn_count, conversation_history, current_speaker,
                    current_listener, current_message, ending_reason,
                    response_data, in_flight, returned, calls, agent_memory,
                    parser_vars, remembered, fresh_memory, conversations,
                    relationships, emotional_state, emotional_states,
                    enhanced_relationships, relationship_log, processing,
                    recall_query, recalled, construct_vars>>

LoadInit ==
  /\ pc = "load"
  /\ NoRun
  /\ StoreInit

\* BaseAgent.remember
AgentRemembers ==
  /\ pc \in {"load", "loaded"}
  /\ clock < MaxLoadRemembered
  /\ memory' = AddShortTermMemory(memory, ConversationEvent, clock)
  /\ clock' = clock + 1
  /\ pc' = "load"
  /\ UNCHANGED <<marked, varied, state_blob, base_vars, load_idle_vars>>

\* BaseAgent.update_relationship
AgentRelates ==
  /\ pc \in {"load", "loaded"}
  /\ marked < MaxMarked
  /\ \E other_agent_id \in OtherAgentIds :
       memory' = AddRelationship(memory, other_agent_id,
                                 RelationshipData("positive"))
  /\ marked' = marked + 1
  /\ pc' = "load"
  /\ UNCHANGED <<clock, varied, state_blob, base_vars, load_idle_vars>>

\* BaseAgent.think
AgentThinks ==
  /\ pc \in {"load", "loaded"}
  /\ Len(chat_history) < MaxTranscript
  /\ \E outcome \in {UsualOutcome} \cup OtherOutcomes :
       chat_history' = Transcript(chat_history, ConversationEvent.message,
                                  outcome)
  /\ pc' = "load"
  /\ UNCHANGED <<clock, marked, varied, memory, state_blob, identity,
                 load_idle_vars>>

\* Mutant of AgentLoadsState: the state is merged into what the agent holds.
AgentMergesState ==
  /\ pc \in {"load", "loaded"}
  /\ varied < MaxVaried
  /\ \E state \in LoadableStates :
       /\ memory' =
            [LoadedMemory(state) EXCEPT
               !.short_term = memory.short_term \o @,
               !.relationships = memory.relationships \o @]
       /\ chat_history' = LoadedChatHistory(chat_history, state)
       /\ state_blob' = state
  /\ varied' = varied + 1
  /\ pc' = "loaded"
  /\ UNCHANGED <<clock, marked, identity, load_idle_vars>>

\* BaseAgent.load_state
AgentLoadsState ==
  /\ pc \in {"load", "loaded"}
  /\ varied < MaxVaried
  /\ \E state \in LoadableStates :
       /\ memory' = LoadedMemory(state)
       /\ chat_history' = LoadedChatHistory(chat_history, state)
       /\ state_blob' = state
  /\ varied' = varied + 1
  /\ pc' = "loaded"
  /\ UNCHANGED <<clock, marked, identity, load_idle_vars>>

LoadNext ==
  \/ AgentRemembers
  \/ AgentRelates
  \/ AgentThinks
  \/ AgentLoadsState

LoadSpec == LoadInit /\ [][LoadNext]_vars

(***************************************************************************)
(* Properties                                                              *)
(***************************************************************************)
Ended == pc \in {"ended", "done", "aborted"}

LastTurn == conversation_history[Len(conversation_history)]

\* The consensus calls made during turn t.
ConsensusCallsOf(t) ==
  {k \in 1..Len(calls) : calls[k].kind = "consensus" /\ calls[k].turn = t}

\* C1: if every generation call returns, every run reaches the ended state,
\* with at most max_turns (20) recorded turns and at most one consensus call
\* per turn on the way.
C1_Terminates ==
  /\ <>(pc = "ended")
  /\ [](/\ Len(conversation_history) <= 20
        /\ turn_count <= 20
        /\ \A t \in 1..(turn_count + 1) : Cardinality(ConsensusCallsOf(t)) <= 1)

C1_Witness ==
  /\ pc = "ended"
  /\ Len(conversation_history) = 20
  /\ \E t \in 1..20 : ConsensusCallsOf(t) # {}

\* C2: when no recorded decision of a run on a fresh orchestrator wants to
\* end, the run records exactly the turns 1..20 and ends with the reason
\* "max_turns_reached".
C2_NoMarkersRunsToMaxTurns ==
  (pc = "ended" /\ \A i \in 1..Len(conversation_history) :
                     ~conversation_history[i].wants_to_end)
    => /\ Len(conversation_history) = 20
       /\ turn_count = 20
       /\ \A i \in 1..20 : conversation_history[i].turn = i
       /\ ending_reason = <<"max_turns_reached">>

C2_Witness ==
  /\ pc = "ended"
  /\ Len(conversation_history) = 20
  /\ \A i \in 1..20 : ~conversation_history[i].wants_to_end
  /\ \E i \in 1..20 : conversation_history[i].confidence >= 7

\* C3: a turn whose decision wants to end with confidence >= 7 is the last
\* one: the run has ended on it with the reason "character_decision: " +
\* its reasoning, without a consensus call and without a later turn.
C3_HighConfidenceEndsAtOnce ==
  \A i \in 1..Len(conversation_history) :
    (conversation_history[i].wants_to_end
       /\ conversation_history[i].confidence >= 7)
      => /\ i = Len(conversation_history)
         /\ turn_count = i
         /\ Ended
         /\ ending_reason = <<"character_decision:">>
                              \o conversation_history[i].ending_reasoning
         /\ ConsensusCallsOf(i) = {}
         /\ \A k \in 1..Len(calls) : calls[k].turn <= i
         /\ in_flight = {}

C3_Witness ==
  /\ pc = "ended"
  /\ Len(conversation_history) < 20
  /\ LastTurn.wants_to_end
  /\ LastTurn.confidence = 7
  /\ ending_reason = <<"character_decision:">> \o LastTurn.ending_reasoning

\* C4 as stated: every turn whose decision has confidence >= 7 ends the
\* conversation with the reason "character_decision: " + reasoning.
C4_ConfidenceAloneEnds ==
  \A i \in 1..Len(conversation_history) :
    conversation_history[i].confidence >= 7
      => /\ i = Len(conversation_history)
         /\ Ended
         /\ ending_reason = <<"character_decision:">>
                              \o conversation_history[i].ending_reasoning

\* C4: the step that records a turn moves to ENDED with the reason
\* "character_decision: " + reasoning when the decision wants to end with
\* confidence >= 7, and a decision that does not want to end leaves the
\* conversation going whatever its confidence.
C4_WantingAndConfidentEnds ==
  [][(pc = "awaiting_response" /\ pc' # "awaiting_response")
       => LET decision == conversation_history'[Len(conversation_history')]
          IN /\ (decision.wants_to_end /\ decision.confidence >= 7)
                  => /\ pc' = "ended"
                     /\ ending_reason' = <<"character_decision:">>
                                           \o decision.ending_reasoning
             /\ ~decision.wants_to_end
                  => /\ pc' = "loop"
                     /\ ending_reason' = ending_reason]_vars

C4_Witness ==
  /\ pc = "ended"
  /\ LastTurn.wants_to_end
  /\ LastTurn.confidence = 10
  /\ ending_reason = <<"character_decision:">> \o LastTurn.ending_reasoning

\* C5 as stated: every turn whose decision has 4 <= confidence < 7 makes a
\* consensus call.
C5_ConfidenceAloneAsks ==
  \A i \in 1..Len(conversation_history) :
    (conversation_history[i].confidence >= 4
       /\ conversation_history[i].confidence < 7)
      => ConsensusCallsOf(i) # {}

\* C5: a turn whose decision wants to end with 4 <= confidence < 7 makes
\* exactly one consensus call, to the speaker of that turn, with a prompt
\* quoting the listener's response and reasoning, and the conversation goes
\* on or ends only once the reply to that call has returned.
C5_MediumConfidenceAsksSpeaker ==
  /\ [](\A i \in 1..Len(conversation_history) :
          (conversation_history[i].wants_to_end
             /\ conversation_history[i].confidence >= 4
             /\ conversation_history[i].confidence < 7)
            => /\ Cardinality(ConsensusCallsOf(i)) = 1
               /\ \A k \in ConsensusCallsOf(i) :
                    /\ Name(calls[k].agent) = conversation_history[i].speaker
                    /\ k = Len(calls) \/ calls[k + 1].turn = i + 1
               /\ (turn_count = i /\ returned = NoReply
                     /\ ~Ended /\ pc # "loop")
                    => /\ pc = "awaiting_consensus"
                       /\ \E c \in in_flight :
                            /\ in_flight = {c}
                            /\ c.kind = "consensus"
                            /\ Name(c.agent) = conversation_history[i].speaker
                            /\ c.message = conversation_history[i].response
                            /\ c.reasoning =
                                 conversation_history[i].ending_reasoning)
  /\ [][(pc = "awaiting_consensus" /\ pc' # "awaiting_consensus")
          => (returned # NoReply /\ in_flight = {})]_vars

C5_Witness ==
  /\ pc = "awaiting_consensus"
  /\ in_flight # {}
  /\ LastTurn.wants_to_end
  /\ LastTurn.confidence = 4

\* C6: when the reply to a consensus call parses to agreement, the
\* conversation ends on that turn with the reason "mutual_agreement: " + the
\* consulted agent's reasoning, and once ended no turn is started.
C6_AgreementEnds ==
  /\ [][(pc = "awaiting_consensus" /\ returned # NoReply
           /\ ParseConsensus(returned.text).agrees_to_end)
          => /\ pc' = "ended"
             /\ ending_reason' = <<"mutual_agreement:">>
                                   \o ParseConsensus(returned.text).reasoning
             /\ turn_count' = turn_count
             /\ conversation_history' = conversation_history
             /\ calls' = calls]_vars
  /\ [][Ended => (Ended' /\ turn_count' = turn_count /\ calls' = calls
                    /\ in_flight' = {}
                    /\ ending_reason' = ending_reason)]_vars

C6_Witness ==
  /\ pc = "ended"
  /\ Len(conversation_history) < 20
  /\ ending_reason = <<"mutual_agreement:", "nothing", "to", "add">>
  /\ LastTurn.ending_reasoning # <<"nothing", "to", "add">>
  /\ LastTurn.confidence = 6

\* C7: when the reply to a consensus call does not parse to agreement, the
\* conversation goes on as after a turn without a proposal: same ending
\* reason, roles swapped, the listener's recorded response as the next
\* message, and the next turn gets the next number.
C7_DisagreementContinues ==
  /\ [][(pc = "awaiting_consensus" /\ returned # NoReply
           /\ ~ParseConsensus(returned.text).agrees_to_end)
          => /\ pc' = "loop"
             /\ ending_reason' = ending_reason
             /\ current_speaker' = current_listener
             /\ current_listener' = current_speaker
             /\ current_message' = LastTurn.response
             /\ turn_count' = turn_count
             /\ conversation_history' = conversation_history]_vars
  /\ [][(pc = "loop" /\ pc' = "awaiting_response")
          => /\ turn_count' = turn_count + 1
             /\ \E c \in in_flight' :
                  /\ c.agent = current_listener
                  /\ c.from_agent = current_speaker
                  /\ c.message = current_message
                  /\ c.conversation_turn = turn_count + 1]_vars

C7_Witness ==
  /\ pc = "awaiting_response"
  /\ Len(conversation_history) >= 1
  /\ turn_count = Len(conversation_history) + 1
  /\ LastTurn.wants_to_end
  /\ LastTurn.confidence = 4
  /\ ConsensusCallsOf(LastTurn.turn) # {}
  /\ ending_reason = <<"max_turns_reached">>
  /\ \E c \in in_flight : /\ c.message = LastTurn.response
                          /\ Name(c.agent) = LastTurn.speaker

\* C8: a turn whose decision has confidence < 4 makes no consensus call and
\* does not end the conversation, also when it wants to end: the run goes on
\* to the loop test, and can only end there by the max_turns bound.
C8_LowConfidenceContinues ==
  \A i \in 1..Len(conversation_history) :
    conversation_history[i].confidence < 4
      => /\ ConsensusCallsOf(i) = {}
         /\ turn_count = i => (pc = "loop" \/ Ended)
         /\ (turn_count = i /\ Ended)
              => (i = 20 /\ ending_reason = <<"max_turns_reached">>)

C8_Witness ==
  /\ Len(conversation_history) >= 2
  /\ conversation_history[1].wants_to_end
  /\ conversation_history[1].confidence = 3

\* C9: when the generation call of a turn fails, the agent returns the
\* apology with the text of the failure, the turn is recorded with that
\* response and the decision wants_to_end = false, confidence 5, no
\* consensus call is made, the reason stays, and the run goes on to the loop
\* test.
C9_FailedCallContinues ==
  [][(pc = "awaiting_response" /\ returned.kind = "failure")
       => /\ Head(returned.text) = Apology
          /\ Len(conversation_history') = Len(conversation_history) + 1
          /\ LET turn == conversation_history'[Len(conversation_history')]
             IN /\ turn.turn = turn_count
                /\ turn.response = returned.text
                /\ ~turn.wants_to_end
                /\ turn.confidence = 5
          /\ pc' = "loop"
          /\ ending_reason' = ending_reason
          /\ calls' = calls
          /\ in_flight' = {}]_vars

C9_Witness ==
  /\ pc = "ended"
  /\ ending_reason = <<"max_turns_reached">>
  /\ \E i \in 1..Len(conversation_history) :
       /\ Head(conversation_history[i].response) = Apology
       /\ conversation_history[i].confidence = 5

\* C10: the confidence the response parser returns is an integer of 1..10:
\* the number after the first Confidence: marker that has one, with 12
\* clamped to 10 and 0 clamped to 1, and 5 when no marker is followed by a
\* number.
C10_ConfidenceInRange ==
  parser_output.kind = "turn" =>
    LET text == parser_input
        confidence == parser_output.data.confidence
        numbered == {k \in 1..(Len(text) - 1) :
                       text[k] = "Confidence:" /\ text[k + 1] \in {"0", "7", "12"}}
    IN /\ confidence \in 1..10
       /\ numbered = {} => confidence = 5
       /\ \A k \in numbered :
            (\A j \in numbered : k <= j)
              => /\ text[k + 1] = "12" => confidence = 10
                 /\ text[k + 1] = "0" => confidence = 1
                 /\ text[k + 1] = "7" => confidence = 7

C10_Witness ==
  /\ parser_output.kind = "turn"
  /\ parser_input = <<"Confidence:", "high", "Confidence:">>
  /\ parser_output.data.confidence = 5

\* C11 as stated: a reply without a Want to end: marker, like a reply the
\* parser fails on, parses to wants_to_end = false and confidence 5.
C11_NoWantMarkerGivesDefaults ==
  (parser_output.kind = "turn"
     /\ \A k \in 1..Len(parser_input) : parser_input[k] # "Want to end:")
    => /\ ~parser_output.data.wants_to_end
       /\ parser_output.data.confidence = 5

\* C11: the response parser returns a decision for every reply; the text it
\* fails on (None) gives the reply itself, wants_to_end = false and
\* confidence 5; a reply in which no Want to end: marker is followed by YES
\* or NO gives wants_to_end = false, with confidence 5 unless a Confidence:
\* marker is followed by a number; and the ending policy lets the
\* conversation continue on every decision with wants_to_end = false.
C11_UnparsableContinues ==
  /\ pc = "parser" => ENABLED ParseTurnReply
  /\ parser_output.kind = "turn" =>
       LET text == parser_input
           data == parser_output.data
           answered == {k \in 1..(Len(text) - 1) :
                          /\ text[k] = "Want to end:"
                          /\ text[k + 1] \in {"yes", "NO"}}
           numbered == {k \in 1..(Len(text) - 1) :
                          /\ text[k] = "Confidence:"
                          /\ text[k + 1] \in {"0", "7", "12"}}
       IN /\ text = <<"<None>">>
               => /\ data.response = text
                  /\ ~data.wants_to_end
                  /\ data.confidence = 5
          /\ answered = {} => ~data.wants_to_end
          /\ (answered = {} /\ numbered = {}) => data.confidence = 5
          /\ data.confidence \in 1..10
          /\ ~data.wants_to_end => Decide(data) = "continue"

C11_Witness ==
  /\ parser_output.kind = "turn"
  /\ parser_input = <<"<None>">>
  /\ ~parser_output.data.wants_to_end
  /\ parser_output.data.confidence = 5
  /\ parser_output.data.reasoning = <<"Failed to parse ending assessment">>

\* C12: the conversation ends on the reply to a consensus call only when
\* that reply is a text holding "Agree to end:" followed by YES in either
\* case; on a reply without it, on a failed generation call (the apology)
\* and on a reply the parse fails on (None) the run goes on to the loop test
\* with its ending reason unchanged, never to a mutual agreement.
C12_ConsensusDefaultsToDisagreement ==
  [][(pc = "awaiting_consensus" /\ returned # NoReply)
       => LET text == returned.text
              agreeing == returned.kind = "reply"
                            /\ \E k \in 1..(Len(text) - 1) :
                                 /\ text[k] = "Agree to end:"
                                 /\ text[k + 1] \in {"YES", "yes"}
          IN /\ pc' = "ended" => agreeing
             /\ ~agreeing
                  => /\ pc' = "loop"
                     /\ ending_reason' = ending_reason
                     /\ ending_reason' = <<"max_turns_reached">>
             /\ returned.kind \in {"failure", "none"} => pc' = "loop"]_vars

C12_Witness ==
  /\ pc = "awaiting_consensus"
  /\ returned.kind = "failure"
  /\ Head(returned.text) = Apology
  /\ ~ParseConsensus(returned.text).agrees_to_end

\* C13: after any sequence of remember calls the short-term memory holds at
\* most 20 events; after 21 or more calls it holds exactly 20, and they are
\* the events remembered last, in the order they were remembered.
C13_ShortTermCapped ==
  LET n == Len(remembered)
      kept == Len(memory.short_term)
  IN /\ kept <= 20
     /\ n <= 20 => kept = n
     /\ n >= 21 => kept = 20
     /\ \A i \in 1..kept : memory.short_term[i] = remembered[n - kept + i]

C13_Witness ==
  /\ Len(remembered) = 22
  /\ Len(memory.short_term) = 20
  /\ memory.short_term[1] = remembered[3]
  /\ memory.short_term[20] = remembered[22]
  /\ remembered[1] # remembered[3]

\* C14: for every other agent the familiarity (in tenths) is within [0, 10],
\* equals min(10, 0.5 * the number of interactions recorded with that
\* agent), so is 10 from the 20th interaction on and below 10 before it,
\* and no interaction decreases it.
C14_FamiliaritySaturates ==
  /\ [](\A o \in DOMAIN relationships :
          LET n == Len(conversations[o])
              familiarity == relationships[o].familiarity
          IN /\ familiarity >= 0
             /\ familiarity <= 100
             /\ familiarity = IF 5 * n <= 100 THEN 5 * n ELSE 100
             /\ n < 20 => familiarity < 100
             /\ n >= 20 => familiarity = 100)
  /\ [][\A o \in DOMAIN relationships :
          /\ o \in DOMAIN relationships'
          /\ relationships'[o].familiarity >= relationships[o].familiarity]_vars

C14_Witness ==
  /\ "agent1" \in DOMAIN relationships
  /\ Len(conversations["agent1"]) = 22
  /\ relationships["agent1"].familiarity = 100
  /\ "agent3" \in DOMAIN relationships
  /\ relationships["agent3"].familiarity = 5

C16_OneCallInFlight ==
  /\ [](/\ Cardinality(in_flight) <= 1
        /\ \A a \in {"agent1", "agent2"} :
             Cardinality({c \in in_flight : c.agent = a}) <= 1
        /\ in_flight # {}
             => /\ returned.kind = "pending"
                /\ pc \in {"awaiting_response", "awaiting_consensus"})
  /\ [][(in_flight' # in_flight /\ in_flight' # {})
          => /\ in_flight = {}
             /\ returned'.kind = "pending"]_vars
  /\ [][turn_count' # turn_count
          => /\ in_flight = {}
             /\ returned.kind = "pending"
             /\ Cardinality(in_flight') = 1]_vars

C16_Witness ==
  /\ pc = "awaiting_response"
  /\ Cardinality(in_flight) = 1
  /\ turn_count >= 2
  /\ ConsensusCallsOf(turn_count - 1) # {}
  /\ \E c \in in_flight : c.kind = "turn" /\ c.conversation_turn = turn_count

\* C17: the log holds the turns 1, 2, ..., n in order; agent1 (Holmes)
\* speaks and agent2 (Watson) listens in turn 1; the listener of a turn is
\* the speaker of the next one and its speaker the next listener; the
\* message of a turn is the recorded response of the turn before; the call
\* of a turn goes to its listener; and the log only grows, one record at
\* its end at a time.
C17_TurnsAlternate ==
  /\ [](/\ \A i \in 1..Len(conversation_history) :
             conversation_history[i].turn = i
        /\ Len(conversation_history) >= 1
             => /\ conversation_history[1].speaker = "Holmes"
                /\ conversation_history[1].listener = "Watson"
        /\ \A i \in 1..(Len(conversation_history) - 1) :
             /\ conversation_history[i + 1].speaker
                  = conversation_history[i].listener
             /\ conversation_history[i + 1].listener
                  = conversation_history[i].speaker
             /\ conversation_history[i + 1].message
                  = conversation_history[i].response
        /\ \A c \in in_flight :
             c.kind = "turn"
               => /\ c.conversation_turn = Len(conversation_history) + 1
                  /\ c.agent = (IF c.conversation_turn % 2 = 1
                                THEN "agent2" ELSE "agent1")
                  /\ c.from_agent # c.agent
                  /\ Len(conversation_history) >= 1
                       => c.message =
                            conversation_history[Len(conversation_history)]
                              .response)
  /\ [][conversation_history' # conversation_history
          => /\ Len(conversation_history') = Len(conversation_history) + 1
             /\ SubSeq(conversation_history', 1, Len(conversation_history))
                  = conversation_history]_vars

C17_Witness ==
  /\ Len(conversation_history) = 20
  /\ ConsensusCallsOf(2) # {}
  /\ conversation_history[2].speaker = "Watson"
  /\ conversation_history[3].speaker = "Holmes"
  /\ conversation_history[3].message = conversation_history[2].response
  /\ conversation_history[3].message # conversation_history[2].message

\* C18: once a run has ended its reason is "max_turns_reached" or starts
\* with "character_decision: " or with "mutual_agreement: "; the run ends
\* with a character decision on the step that records a turn, with a mutual
\* agreement on the step that takes up a consensus reply, and with
\* "max_turns_reached" on the loop test, which it fails only when the turn
\* counter equals max_turns (20) and the last turn ended the run neither by
\* decision nor by agreement.
C18_EndingReasons ==
  /\ [](Ended
          => /\ \/ ending_reason = <<"max_turns_reached">>
                \/ Head(ending_reason) = "character_decision:"
                \/ Head(ending_reason) = "mutual_agreement:"
             /\ ending_reason = <<"max_turns_reached">>
                  => /\ turn_count = 20
                     /\ Len(conversation_history) = 20
                     /\ ~(LastTurn.wants_to_end /\ LastTurn.confidence >= 7)
             /\ (turn_count < 20 \/ (LastTurn.wants_to_end
                                       /\ LastTurn.confidence >= 7))
                  => ending_reason # <<"max_turns_reached">>)
  /\ [][(~Ended /\ Ended')
          => CASE pc = "loop" ->
                    /\ turn_count = 20
                    /\ ending_reason' = <<"max_turns_reached">>
               [] pc = "awaiting_response" ->
                    /\ Head(ending_reason') = "character_decision:"
                    /\ LastTurn'.wants_to_end
                    /\ LastTurn'.confidence >= 7
               [] pc = "awaiting_consensus" ->
                    /\ Head(ending_reason') = "mutual_agreement:"
                    /\ ParseConsensus(returned.text).agrees_to_end
               [] OTHER -> FALSE]_vars
  /\ [][(pc = "loop" /\ pc' # "loop")
          => (pc' = "ended" <=> turn_count = 20)]_vars

C18_Witness ==
  /\ pc = "ended"
  /\ turn_count = 20
  /\ Head(ending_reason) = "mutual_agreement:"
  /\ LastTurn.wants_to_end
  /\ LastTurn.confidence = 6

\* C19: the first interaction with an agent creates its record and applies
\* the update to the defaults (familiarity 0, trust 5.0, collaboration 5.0,
\* count 0), which leaves count 1, familiarity 0.5, trust 5.0 and both
\* timestamps at the time of the interaction; every interaction adds
\* exactly 1 to the count of its agent and nothing to the others, so the
\* count always is the number of interactions recorded with that agent.
C19_CountsInteractions ==
  /\ [](/\ DOMAIN relationships = DOMAIN conversations
        /\ \A o \in DOMAIN relationships :
             /\ relationships[o].conversation_count = Len(conversations[o])
             /\ relationships[o].conversation_count >= 1
             /\ \A i \in 1..Len(conversations[o]) :
                  conversations[o][i].turn_number = i)
  /\ [][\A o \in DOMAIN relationships' :
          IF o \in DOMAIN relationships
          THEN relationships'[o].conversation_count
                 = relationships[o].conversation_count
                     + (IF conversations'[o] # conversations[o] THEN 1 ELSE 0)
          ELSE /\ relationships'[o].conversation_count = 1
               /\ relationships'[o].familiarity = 5
               /\ relationships'[o].trust_level = 50
               /\ relationships'[o].collaboration_score \in {50, 52}
               /\ relationships'[o].first_meeting = clock
               /\ relationships'[o].last_interaction = clock
               /\ Len(conversations'[o]) = 1]_vars

C19_Witness ==
  /\ DOMAIN relationships = {"agent1", "agent3"}
  /\ relationships["agent3"].conversation_count = 1
  /\ relationships["agent3"].familiarity = 5
  /\ relationships["agent3"].collaboration_score = 50
  /\ relationships["agent3"].first_meeting > 0
  /\ relationships["agent1"].conversation_count = 3
  /\ relationships["agent1"].last_interaction
       > relationships["agent3"].first_meeting

\* C20: the collaboration score (in tenths) stays within [5, 10] and never
\* decreases; an interaction whose message has 101 characters adds 0.2 to
\* the score of its agent, up to 10 and no further; an interaction whose
\* message has exactly 100 characters, or fewer, leaves it as it was; and
\* the scores of the other agents do not change.
C20_CollaborationOnLongMessages ==
  /\ [](/\ CharCount(HundredMessage) = 100
        /\ CharCount(LongMessage) = 101
        /\ \A o \in DOMAIN relationships :
             /\ relationships[o].collaboration_score >= 50
             /\ relationships[o].collaboration_score <= 100)
  /\ [][\A o \in DOMAIN relationships' :
          LET before == IF o \in DOMAIN relationships
                        THEN relationships[o].collaboration_score ELSE 50
              after == relationships'[o].collaboration_score
              said == conversations'[o][Len(conversations'[o])].message
              met == o \notin DOMAIN conversations
                       \/ conversations'[o] # conversations[o]
          IN /\ after >= before
             /\ ~met => after = before
             /\ (met /\ said = LongMessage)
                  => after = (IF before + 2 <= 100 THEN before + 2 ELSE 100)
             /\ (met /\ said # LongMessage) => after = before]_vars

C20_Witness ==
  /\ "agent1" \in DOMAIN relationships
  /\ Len(conversations["agent1"]) = 27
  /\ relationships["agent1"].collaboration_score = 100
  /\ conversations["agent1"][1].message = HundredMessage
  /\ \A i \in 2..27 : conversations["agent1"][i].message = LongMessage

\* The call of process_message that returns in this step came from a known
\* interlocutor and its message holds no keyword of the sentiment analysis.
NoSentimentKeywordReturns ==
  /\ pc = "thinking"
  /\ pc' = "ready"
  /\ HasFromAgent(processing.context)
  /\ ~HasAny(processing.message, PositiveWords)
  /\ ~HasAny(processing.message, ConcernedWords)

\* C21 as stated: a message with neither a gratitude nor a distress term
\* leaves the sentiment held for its sender unchanged.
C21_NoKeywordKeepsSentiment ==
  [][(NoSentimentKeywordReturns
      /\ processing.context.from_agent \in DOMAIN enhanced_relationships)
     => enhanced_relationships'[processing.context.from_agent].sentiment
          = enhanced_relationships[processing.context.from_agent].sentiment
    ]_vars

\* C21 amended: a message with neither a gratitude nor a distress term sets
\* the sentiment held for its sender to neutral, in the enhanced record and
\* in the record of the agent's memory, whatever it was before.
C21_NoKeywordGivesNeutral ==
  [][NoSentimentKeywordReturns
     => /\ enhanced_relationships'[processing.context.from_agent].sentiment
             = "neutral"
        /\ RelationshipOf(memory', processing.context.from_agent).sentiment
             = "neutral"
    ]_vars

\* A grateful message of agent1 made the sentiment positive and a later
\* message without keyword made it neutral.
C21_Witness ==
  /\ pc = "ready"
  /\ "agent1" \in DOMAIN enhanced_relationships
  /\ enhanced_relationships["agent1"].sentiment = "neutral"
  /\ RelationshipOf(memory, "agent1").last_interaction = PlainMessage
  /\ \E k \in 1..Len(relationship_log) :
        /\ relationship_log[k].agent_id = "agent1"
        /\ relationship_log[k].data.last_interaction = GratefulMessage
        /\ relationship_log[k].data.sentiment = "positive"

\* The record the agent's memory holds for agent_id is the same in mem and
\* in other.
SameRelationship(mem, other, agent_id) ==
  /\ KnowsAgent(mem, agent_id) <=> KnowsAgent(other, agent_id)
  /\ KnowsAgent(mem, agent_id)
       => RelationshipOf(mem, agent_id) = RelationshipOf(other, agent_id)

\* C22: a completed call of process_message whose context carries from_agent
\* updates the relationship the agent's memory holds for that agent exactly
\* once (update_relationship is called, and logged, once), and neither
\* creates nor changes the record of any other agent.
C22_UpdatedExactlyOnce ==
  [][(pc = "thinking" /\ pc' = "ready" /\ HasFromAgent(processing.context))
     => /\ Len(relationship_log') = Len(relationship_log) + 1
        /\ \A o \in OtherAgentIds \ {processing.context.from_agent} :
              /\ SameRelationship(memory, memory', o)
              /\ o \in DOMAIN enhanced_relationships
                   <=> o \in DOMAIN enhanced_relationships'
              /\ o \in DOMAIN enhanced_relationships
                   => enhanced_relationships'[o] = enhanced_relationships[o]
    ]_vars

\* The mood the keyword rule gives: excitement before distress before
\* gratitude, and the mood held when the message has no keyword.
MoodByPrecedence(message, held) ==
  IF HasAny(message, ExcitementWords) THEN "excited"
  ELSE IF HasAny(message, DistressWords) THEN "concerned"
  ELSE IF HasAny(message, GratitudeWords) THEN "pleased"
  ELSE held

\* C23: an emotional update applies the first rule that matches: excitement
\* gives mood excited and energy raised by 10, at most 100; else distress
\* gives mood concerned and energy lowered by 5, at least 0; else gratitude
\* gives mood pleased and the energy as it was; else nothing changes.  The
\* energy is that of the keyword step, which is the result when the context
\* carries no turn counter.
C23_KeywordPrecedence ==
  [][processing' # NoCall
     => /\ emotional_state'.mood =
             MoodByPrecedence(processing'.message, emotional_state.mood)
        /\ ~HasTurn(processing'.context)
             => emotional_state'.energy =
                  IF HasAny(processing'.message, ExcitementWords)
                  THEN Min(100, emotional_state.energy + 10)
                  ELSE IF HasAny(processing'.message, DistressWords)
                  THEN Max(0, emotional_state.energy - 5)
                  ELSE emotional_state.energy
    ]_vars

\* A message with an excitement and a distress term was handled without a
\* turn counter: the mood is excited and the energy is not 100.
C23_Witness ==
  /\ pc = "emotion"
  /\ processing.message = ExcitedTroubledMessage
  /\ ~HasTurn(processing.context)
  /\ emotional_state.mood = "excited"
  /\ emotional_state.energy = 95

\* C24: when the context of an update carries a turn counter t, the energy
\* after the update is max(50, 100 - 5t), whatever it was before and whatever
\* the keywords of the message did to it, and the mood is the one the keyword
\* rule gives.
C24_TurnCounterSetsEnergy ==
  [][(processing' # NoCall /\ HasTurn(processing'.context))
     => /\ emotional_state'.energy =
             Max(50, 100 - 5 * processing'.context.conversation_turn)
        /\ emotional_state'.mood =
             MoodByPrecedence(processing'.message, emotional_state.mood)
    ]_vars

\* A message with a distress term came with turn counter 3 to an agent whose
\* energy was not 100: the energy is 85 and the mood concerned.
C24_Witness ==
  /\ pc = "emotion"
  /\ processing.message = TroubledMessage
  /\ processing.context.conversation_turn = 3
  /\ emotional_state = [mood |-> "concerned", energy |-> 85]

\* C25: the mood is always one of neutral, excited, concerned and pleased and
\* the energy always between 0 and 100, after any sequence of updates with
\* turn counters that are not negative and of resets.
C25_EmotionalStateInRange ==
  /\ emotional_state.mood \in {"neutral", "excited", "concerned", "pleased"}
  /\ emotional_state.energy \in 0..100

\* Distress has brought the energy down to 0 and the last message, without a
\* turn counter, holds a distress term.
C25_Witness ==
  /\ pc = "emotion"
  /\ emotional_state.energy = 0
  /\ emotional_state.mood = "concerned"
  /\ processing.message = UnconcernedMessage
  /\ ~HasTurn(processing.context)

\* The mood and energy a prompt tells the generation collaborator of.
MoodShown(prompt) ==
  LET i == FirstIndex({k \in 1..Len(prompt) :
                         prompt[k] = "[Your current mood is"})
  IN SubSeq(prompt, i, i + 4)

\* C26: the log of emotional snapshots never holds more than 20 entries; a
\* snapshot added to a full log evicts the oldest one and keeps the others in
\* order; the newest entry is the emotional state the prompt of the latest
\* reply showed.
C26_SnapshotLog ==
  [][(pc = "thinking" /\ pc' = "ready")
     => /\ Len(emotional_states') <= 20
        /\ Len(emotional_states') >= 1
        /\ Len(emotional_states) < 20
             => SubSeq(emotional_states', 1, Len(emotional_states') - 1)
                  = emotional_states
        /\ Len(emotional_states) = 20
             => SubSeq(emotional_states', 1, 19) = Tail(emotional_states)
        /\ MoodLine(emotional_states'[Len(emotional_states')])
             = MoodShown(processing.prompt)
    ]_vars

\* Twenty-one replies were given: the log is full, the snapshot of the first
\* reply (energy 95, turn 1) is gone and the newest is that of turn 21.
C26_Witness ==
  /\ pc = "ready"
  /\ turn_count = 21
  /\ Len(emotional_states) = 20
  /\ emotional_states[1].energy = 90
  /\ emotional_states[20].energy = 50
  /\ \E k \in 1..20 : emotional_states[k].mood = "pleased"

\* C27: the orchestrator writes no state of an agent: the memory of an agent
\* changes only in a step in which a call of that agent's process_message
\* begins or returns; and the conversation log only grows at its end.
C27_OnlyProcessMessageWritesAgents ==
  [][/\ \A a \in Agents :
          agent_memory'[a] # agent_memory[a]
            => \E call \in (in_flight' \ in_flight)
                             \cup (in_flight \ in_flight') : call.agent = a
     /\ Len(conversation_history') >= Len(conversation_history)
     /\ SubSeq(conversation_history', 1, Len(conversation_history))
          = conversation_history
    ]_vars

\* A run is over in which both agents remembered calls, the speaker was asked
\* for its consent and the listener came to know the speaker.
C27_Witness ==
  /\ pc = "done"
  /\ Len(conversation_history) >= 2
  /\ KnowsAgent(agent_memory["agent2"], "agent1")
  /\ KnowsAgent(agent_memory["agent1"], "agent2")
  /\ \E k \in 1..Len(agent_memory["agent1"].short_term) :
        agent_memory["agent1"].short_term[k].context.from_agent = NoAgent

\* C28: the context of the call of turn n carries the id of the speaker, the
\* turn number n and the last min(3, n - 1) records of the log as it was
\* before turn n, in order; the record of turn n is not among them.
C28_ContextOfTurn ==
  \A call \in in_flight :
     call.kind = "turn"
       => /\ call.from_agent = current_speaker
          /\ call.agent = current_listener
          /\ call.conversation_turn = turn_count
          /\ Len(conversation_history) = turn_count - 1
          /\ Len(call.conversation_history) = Min(3, turn_count - 1)
          /\ \A k \in 1..Len(call.conversation_history) :
                /\ call.conversation_history[k]
                     = conversation_history[
                         turn_count - 1
                           - Len(call.conversation_history) + k]
                /\ call.conversation_history[k].turn
                     = turn_count - 1
                         - Len(call.conversation_history) + k

\* The call of turn 5 is in flight with the records of turns 2, 3 and 4.
C28_Witness ==
  /\ turn_count = 5
  /\ \E call \in in_flight :
        /\ call.kind = "turn"
        /\ Len(call.conversation_history) = 3
        /\ call.conversation_history[1].turn = 2
        /\ call.conversation_history[3].turn = 4

\* The indices of the short-term events a query matches.
Matching(short_term, query) ==
  {k \in 1..Len(short_term) : EventMatches(short_term[k], query)}

\* C29: recall(query) returns exactly the short-term events whose serialised
\* text holds a token of the query, compared without regard to case, in the
\* order of the memory; it returns nothing from an empty memory or for a query
\* without token; and it leaves the memory as it was.
C29_RecallReturnsMatches ==
  [][pc' = "recalled"
     => \E found \in {Matching(memory.short_term, recall_query')} :
          /\ memory' = memory
          /\ Len(recalled') = Cardinality(found)
          /\ \A i \in 1..Len(recalled') :
                \E k \in found :
                   /\ Cardinality({j \in found : j <= k}) = i
                   /\ recalled'[i] = memory.short_term[k]
          /\ (memory.short_term = <<>> \/ recall_query' \in {"", "  "})
               => recalled' = <<>>
    ]_vars

\* Of three events the query in capitals finds the first and the third.
C29_Witness ==
  /\ pc = "recalled"
  /\ recall_query = "MORIARTY  fiber"
  /\ Len(memory.short_term) = 3
  /\ memory.short_term[2].type = "note"
  /\ recalled = <<memory.short_term[1], memory.short_term[3]>>

C31_TrustNeverChanges ==
  \A o \in DOMAIN relationships :
     relationships[o].trust_level = InitialTrust

\* Two agents are known, and the record of agent1 has seen its other scores
\* move: familiarity is at the cap and collaboration has grown.
C31_Witness ==
  /\ pc = "character_memory"
  /\ DOMAIN relationships = {"agent1", "agent3"}
  /\ relationships["agent1"].familiarity = ScoreCap
  /\ relationships["agent1"].collaboration_score > InitialCollaboration
  /\ relationships["agent1"].trust_level = InitialTrust
  /\ relationships["agent3"].conversation_count = 1

C33_BadDescriptorFailsConstruction ==
  [][LET character_file == construct_call'.character_file
         character_data == construct_call'.character_data
         failed == /\ pc' = "construct_failed"
                   /\ constructed' = constructed
                   /\ opened' = opened
     IN /\ pc # "construct_failed"
        /\ ( /\ character_file \in {NoFile, ""}
             /\ \/ ~character_data.given
                \/ DOMAIN character_data.dict = {} )
             => (raised' = "ValueError" /\ failed)
        /\ ( /\ character_file \notin {NoFile, ""}
             /\ character_file \notin file_system )
             => (raised' = "FileNotFoundError" /\ failed)
    ]_vars

\* One agent was constructed from its file; the second constructor was given
\* a file that does not exist, and data that would have done.
C33_Witness ==
  /\ pc = "construct_failed"
  /\ raised = "FileNotFoundError"
  /\ Len(constructed) = 1
  /\ opened = 1
  /\ construct_call.character_file = WatsonFile
  /\ construct_call.character_data = MycroftData
  /\ WatsonFile \notin file_system

\* C34: a turn whose parsed decision does not want to end makes no consensus
\* call and does not end the conversation, whatever its confidence; when the
\* run is over with such a turn as its last, it is the max_turns bound that
\* ended it.
C34_NotWantingNeverEnds ==
  \A i \in 1..Len(conversation_history) :
    ~conversation_history[i].wants_to_end
      => /\ ConsensusCallsOf(i) = {}
         /\ turn_count = i
              => /\ pc = "loop" \/ Ended
                 /\ ending_reason = MaxTurnsReached
                 /\ Ended => i = MaxTurns

\* The run went to the max_turns bound although one turn, not wanting to
\* end, gave a confidence of 7 or more, and the others gave the default 5.
C34_Witness ==
  /\ pc = "ended"
  /\ turn_count = MaxTurns
  /\ ending_reason = MaxTurnsReached
  /\ \A i \in 1..Len(conversation_history) :
        ~conversation_history[i].wants_to_end
  /\ \E i \in 1..Len(conversation_history) :
        conversation_history[i].confidence >= HighConfidence
  /\ \E i \in 1..Len(conversation_history) :
        conversation_history[i].confidence = DefaultConfidence

\* C35: a consensus check consumes no turn: the step that takes its reply
\* leaves the conversation log and the turn counter as they are.  So in a run
\* on a fresh orchestrator, whenever no turn is under way, the log has as
\* many records as turns were counted, at most max_turns, and when the
\* conversation ends its last turn is the last record of the log.
C35_ConsensusConsumesNoTurn ==
  [][/\ pc = "awaiting_consensus"
          => /\ conversation_history' = conversation_history
             /\ turn_count' = turn_count
     /\ pc' # "awaiting_response"
          => /\ Len(conversation_history') = turn_count'
             /\ turn_count' <= MaxTurns
     /\ (pc' = "ended" /\ pc # "ended")
          => /\ conversation_history' # <<>>
             /\ conversation_history'[Len(conversation_history')].turn
                  = turn_count'
    ]_vars

\* The consensus check of turn 2 ended in disagreement and the run went on
\* to the max_turns bound: one call more than turns was made, and the log
\* holds the turns alone.
C35_Witness ==
  /\ pc = "ended"
  /\ ConsensusCallsOf(2) # {}
  /\ turn_count = MaxTurns
  /\ Len(conversation_history) = MaxTurns
  /\ Len(calls) = MaxTurns + 1
  /\ LastTurn.turn = MaxTurns

\* C36: a consensus check is made with the speaker of the current turn and
\* with nobody else, at most once per turn, and its context carries no
\* from_agent: the agent consulted gets one more event in its short-term
\* memory, and neither the call nor its reply creates or updates a
\* relationship record of either agent.
C36_ConsensusAsksSpeakerOnce ==
  [][/\ (pc = "awaiting_response" /\ pc' = "awaiting_consensus")
          => /\ \E call \in in_flight' :
                  /\ in_flight' = {call}
                  /\ call.kind = "consensus"
                  /\ call.agent = current_speaker
             /\ \A a \in Agents :
                  agent_memory'[a].relationships
                    = agent_memory[a].relationships
             /\ \A a \in Agents \ {current_speaker} :
                  agent_memory'[a] = agent_memory[a]
             /\ LET before == agent_memory[current_speaker].short_term
                    after == agent_memory'[current_speaker].short_term
                IN /\ Len(after) = Len(before) + 1
                   /\ SubSeq(after, 1, Len(before)) = before
                   /\ after[Len(after)].type = "conversation"
                   /\ after[Len(after)].context.from_agent = NoAgent
     /\ pc = "awaiting_consensus"
          => /\ agent_memory' = agent_memory
             /\ calls' = calls
     /\ calls' # calls
          => /\ Len(calls') = Len(calls) + 1
             /\ SubSeq(calls', 1, Len(calls)) = calls
             /\ calls'[Len(calls')].kind = "consensus"
                  => /\ calls'[Len(calls')].turn = turn_count
                     /\ ConsensusCallsOf(turn_count) = {}
    ]_vars

\* Watson, the speaker of turn 2, was consulted and disagreed; he remembers
\* the check, and each agent still holds the one relationship record it had.
C36_Witness ==
  /\ pc = "loop"
  /\ turn_count = 2
  /\ ConsensusCallsOf(2) # {}
  /\ \A k \in ConsensusCallsOf(2) : calls[k].agent = "agent2"
  /\ conversation_history[2].speaker = Name("agent2")
  /\ Len(agent_memory["agent2"].short_term) = 2
  /\ agent_memory["agent2"].short_term[2].context.from_agent = NoAgent
  /\ Len(agent_memory["agent1"].short_term) = 1
  /\ Len(agent_memory["agent1"].relationships) = 1
  /\ Len(agent_memory["agent2"].relationships) = 1
  /\ KnowsAgent(agent_memory["agent1"], "agent2")
  /\ KnowsAgent(agent_memory["agent2"], "agent1")

\* C37: the turn counter and the conversation log of an orchestrator are
\* not reset between runs: a run starts with the counter and the log the
\* run before left, so the turns of all runs together are at most max_turns;
\* a run started with the counter at max_turns executes no turn, makes no
\* generation call and reports "max_turns_reached".
C37_CounterSurvivesRuns ==
  [][/\ turn_count' <= MaxTurns
     /\ Len(conversation_history') <= MaxTurns
     /\ (pc \in {"done", "aborted"} /\ pc' # pc)
          => /\ turn_count' = turn_count
             /\ conversation_history' = conversation_history
             /\ ending_reason' = MaxTurnsReached
     /\ (pc = "loop" /\ turn_count = MaxTurns)
          => /\ pc' = "ended"
             /\ turn_count' = turn_count
             /\ conversation_history' = conversation_history
             /\ calls' = calls
             /\ in_flight' = {}
             /\ ending_reason' = MaxTurnsReached
    ]_vars

\* The first run ended at a turn by the decision of a character, a later run
\* took the counter to max_turns, and the run after that is over without a
\* turn: the message is still the topic it was started with.
C37_Witness ==
  /\ pc = "ended"
  /\ turn_count = MaxTurns
  /\ Len(conversation_history) = MaxTurns
  /\ Len(calls) = MaxTurns
  /\ ending_reason = MaxTurnsReached
  /\ current_message \in Topics
  /\ \E i \in 1..(MaxTurns - 1) :
        /\ conversation_history[i].wants_to_end
        /\ conversation_history[i].confidence >= HighConfidence

\* C38: load_state does not enforce the short-term cap: the agent holds the
\* short-term list of the state loaded whatever its length, so more than 20
\* events when the state has more than 20; the list then stays longer than
\* 20 until the next remember call, which leaves exactly 20 events, the new
\* one last.
C38_LoadIgnoresCap ==
  [][/\ (pc' = "loaded" /\ "memory" \in DOMAIN state_blob')
          => memory'.short_term = state_blob'.memory.short_term
     /\ (Len(memory.short_term) > 20 /\ pc' # "loaded")
          => \/ memory'.short_term = memory.short_term
             \/ /\ clock' = clock + 1
                /\ Len(memory'.short_term) = 20
                /\ memory'.short_term[20].timestamp = clock
                /\ SubSeq(memory'.short_term, 1, 19)
                     = SubSeq(memory.short_term,
                              Len(memory.short_term) - 18,
                              Len(memory.short_term))
    ]_vars

\* A state with 22 short-term events was loaded, and since then a
\* relationship was added and a remember call has brought the list to 20:
\* 19 events of the state and the one remembered.
C38_Witness ==
  /\ pc = "load"
  /\ state_blob = OverfullState
  /\ Len(memory.short_term) = 20
  /\ memory.short_term[1] = Archive(OverfullLength)[4]
  /\ memory.short_term[20].type = "conversation"
  /\ Len(memory.relationships) = 2

\* C39: load_state replaces the agent's memory by the memory of the state
\* and merges nothing: the events and relationships are those of the state,
\* and none when the state has no memory key.  It leaves agent_id, name and
\* personality as they were, and it empties the dialogue transcript when the
\* state has a chat_history key, whatever that holds, and only then.
C39_LoadReplacesMemory ==
  [][pc' = "loaded"
       => /\ "memory" \in DOMAIN state_blob'
               => /\ memory'.short_term = state_blob'.memory.short_term
                  /\ "relationships" \in DOMAIN state_blob'.memory
                       => memory'.relationships
                            = state_blob'.memory.relationships
                  /\ "relationships" \notin DOMAIN state_blob'.memory
                       => memory'.relationships = <<>>
          /\ "memory" \notin DOMAIN state_blob'
               => memory' = [short_term |-> <<>>, long_term |-> <<>>,
                             relationships |-> <<>>]
          /\ identity' = identity
          /\ identity'.agent_id = "agent2"
          /\ "chat_history" \in DOMAIN state_blob' => chat_history' = <<>>
          /\ "chat_history" \notin DOMAIN state_blob'
               => chat_history' = chat_history
    ]_vars

\* The agent had remembered two events and held a relationship; the state
\* of another agent, which has a chat_history key and no memory key, was
\* loaded: memory and transcript are empty, and the agent is still Watson.
C39_Witness ==
  /\ pc = "loaded"
  /\ state_blob = NoMemoryState
  /\ clock = 2
  /\ marked = 1
  /\ memory.short_term = <<>>
  /\ memory.relationships = <<>>
  /\ chat_history = <<>>
  /\ identity.name = Name("agent2")
  /\ state_blob.name = Name("agent1")

\* The list after holds the list before with one event more at its end,
\* trimmed to the last 20.
OneAppended(before, after) ==
  /\ Len(after) = Min(20, Len(before) + 1)
  /\ SubSeq(after, 1, Len(after) - 1) = LastN(before, Len(after) - 1)

\* C40: each message an EnhancedCharacterAgent processes appends two events
\* to its short-term memory, one before the generation call and one after
\* it, and one emotional snapshot, so that between two calls the memory
\* holds the events of the last 10 messages at most, two for each; a plain
\* CharacterAgent appends one event for each message, before the generation
\* call, and none after it, also when the call fails.
C40_EventsPerMessage ==
  [][/\ (pc = "ready" /\ pc' = "thinking")
          => /\ OneAppended(memory.short_term, memory'.short_term)
             /\ "response" \notin
                  DOMAIN memory'.short_term[Len(memory'.short_term)]
             /\ emotional_states' = emotional_states
     /\ (pc = "thinking" /\ pc' = "ready")
          => /\ OneAppended(memory.short_term, memory'.short_term)
             /\ "response" \in
                  DOMAIN memory'.short_term[Len(memory'.short_term)]
             /\ OneAppended(emotional_states, emotional_states')
     /\ pc' = "ready"
          => /\ Len(memory'.short_term) = Min(20, 2 * turn_count')
             /\ \A k \in 1..Len(memory'.short_term) :
                  ("response" \in DOMAIN memory'.short_term[k])
                    <=> (k % 2 = 0)
     /\ (pc = "ready" /\ pc' = "plain_thinking")
          => /\ OneAppended(agent_memory["agent1"].short_term,
                            agent_memory'["agent1"].short_term)
             /\ memory' = memory
     /\ (pc = "plain_thinking" /\ pc' = "ready")
          => /\ agent_memory'["agent1"].short_term
                  = agent_memory["agent1"].short_term
             /\ memory' = memory
     /\ pc \in {"ready", "thinking"} /\ pc' \in {"ready", "thinking"}
          => agent_memory' = agent_memory
    ]_vars

\* The enhanced agent has processed 11 messages and holds the 20 events of
\* the last 10, with 11 snapshots; the plain agent has processed one message
\* from agent2 and holds the one event.
C40_Witness ==
  /\ pc = "ready"
  /\ turn_count = 11
  /\ Len(memory.short_term) = 20
  /\ memory.short_term[1].context.conversation_turn = 2
  /\ Len(emotional_states) = 11
  /\ Len(agent_memory["agent1"].short_term) = 1
  /\ KnowsAgent(agent_memory["agent1"], "agent2")

====
